---- MODULE Spec2Model ----
(***************************************************************************)
(* State-machine model of the scanner-rust crate: the buffered UTF-8       *)
(* Scanner (src/src/scanner.rs), the ASCII ScannerAscii                    *)
(* (src/src/scanner_ascii.rs) and the capacity-configurable Scanner        *)
(* (src/src/lib.rs).  Bytes are integers 0..255, byte strings are          *)
(* sequences, a String is a sequence of code points.  A reader is the      *)
(* input, the number of bytes already delivered and the set of split       *)
(* points no single read crosses.                                          *)
(***************************************************************************)
EXTENDS Integers, Sequences, FiniteSets, TLC

VARIABLES input, mode, boundary, sc, asc, lsc, usc, ssc, last, out, done, turn

vars == <<input, mode, boundary, sc, asc, lsc, usc, ssc, last, out, done, turn>>

(***************************************************************************)
(* Bounds of the model.                                                    *)
(***************************************************************************)
\* size of Scanner's buffer (crate::BUFFER_SIZE), scaled down
BUFFER_SIZE == 34
\* size N of ScannerAscii's buffer (the type parameter N >= 4), scaled down
AsciiN == 5
\* the largest capacity given to Scanner::with_capacity
MaxCapacity == 6
\* units per input, by family of inputs
MaxLineUnits == 4
MaxCharUnits == 3
MaxTokenUnits == 3
MaxUntilUnits == 4
MaxAnyUnits == 3
MaxCapUnits == 4
\* split points of one input
MaxSplits == 2
\* long inputs: units after the pad, and positions before the end of the
\* input where a read may stop
MaxLongUnits == 2
SplitWindow == 3
\* the largest number of bytes asked of next_bytes or removed after a peek
MaxBytes == 2
\* calls made on a long input by the caller that mixes peek with the others
MaxCalls == 3
MaxSliceUnits == 4
MaxDropUnits == 3
\* number of units in an input of cut multi-byte characters and line terminators
MaxCutUnits == 3
\* ScannerAscii: units of an input
MaxAsciiUnits == 5
MaxAsciiAnyUnits == 3

(***************************************************************************)
(* Byte values.                                                            *)
(***************************************************************************)
LF == 10
CR == 13
REPLACEMENT_CHARACTER == 65533

Min(a, b) == IF a < b THEN a ELSE b
Max(a, b) == IF a > b THEN a ELSE b

\* bytes i+1 .. Len(s) of s
Drop(s, n) == SubSeq(s, n + 1, Len(s))
Take(s, n) == SubSeq(s, 1, n)

RECURSIVE Flatten(_)
Flatten(ss) == IF ss = <<>> THEN <<>> ELSE Head(ss) \o Flatten(Tail(ss))

(***************************************************************************)
(* utf8_char_width: the width announced by a lead byte, 0 for a byte that  *)
(* cannot start a character.                                               *)
(***************************************************************************)
utf8_char_width(b) ==
    IF b < 128 THEN 1
    ELSE IF b < 194 THEN 0
    ELSE IF b < 224 THEN 2
    ELSE IF b < 240 THEN 3
    ELSE IF b < 245 THEN 4
    ELSE 0

is_whitespace_1(c) == (c >= 9 /\ c <= 13) \/ (c >= 28 /\ c <= 32)

is_whitespace_3(b1, b2, b3) ==
    CASE b1 = 225 -> (b2 = 154 /\ b3 = 128) \/ (b2 = 160 /\ b3 = 142)
      [] b1 = 226 -> \/ (b2 = 128 /\ ((b3 >= 128 /\ b3 <= 138) \/ b3 = 168 \/ b3 = 168))
                     \/ (b2 = 129 /\ b3 = 159)
      [] b1 = 227 -> b2 = 128 /\ b3 = 128
      [] OTHER -> FALSE

IsCont(b) == b >= 128 /\ b <= 191

\* the second byte std::str::from_utf8 accepts after lead byte b
SecondOk(b, c) ==
    CASE b = 224 -> c >= 160 /\ c <= 191
      [] b = 237 -> c >= 128 /\ c <= 159
      [] b = 240 -> c >= 144 /\ c <= 191
      [] b = 244 -> c >= 128 /\ c <= 143
      [] OTHER -> IsCont(c)

\* std::str::from_utf8 on exactly the bytes of one announced character
from_utf8_ok(bs) ==
    LET w == utf8_char_width(bs[1])
    IN /\ w = Len(bs)
       /\ w >= 1
       /\ w >= 2 => SecondOk(bs[1], bs[2])
       /\ \A i \in 3..w : IsCont(bs[i])

\* the code point of a well-formed character (chars().next())
DecodeChar(bs) ==
    CASE Len(bs) = 1 -> bs[1]
      [] Len(bs) = 2 -> (bs[1] - 192) * 64 + (bs[2] - 128)
      [] Len(bs) = 3 -> (bs[1] - 224) * 4096 + (bs[2] - 128) * 64 + (bs[3] - 128)
      [] OTHER       -> (bs[1] - 240) * 262144 + (bs[2] - 128) * 4096
                            + (bs[3] - 128) * 64 + (bs[4] - 128)

\* the UTF-8 encoding of a code point (String::push, char::encode_utf8)
EncodeChar(c) ==
    IF c < 128 THEN <<c>>
    ELSE IF c < 2048 THEN <<192 + (c \div 64), 128 + (c % 64)>>
    ELSE IF c < 65536 THEN <<224 + (c \div 4096), 128 + ((c \div 64) % 64), 128 + (c % 64)>>
    ELSE <<240 + (c \div 262144), 128 + ((c \div 4096) % 64),
           128 + ((c \div 64) % 64), 128 + (c % 64)>>

RECURSIVE EncodeStr(_)
EncodeStr(cs) == IF cs = <<>> THEN <<>> ELSE EncodeChar(Head(cs)) \o EncodeStr(Tail(cs))

\* the length of the ill-formed or well-formed unit at the head of bs, as
\* String::from_utf8_lossy cuts it: [n |-> bytes taken, ok |-> well formed]
LossyHead(bs) ==
    LET b == bs[1]
        w == utf8_char_width(b)
        n == Len(bs)
    IN  IF w = 1 THEN [n |-> 1, ok |-> TRUE]
        ELSE IF w = 0 THEN [n |-> 1, ok |-> FALSE]
        ELSE IF n < 2 \/ ~SecondOk(b, bs[2]) THEN [n |-> 1, ok |-> FALSE]
        ELSE IF w = 2 THEN [n |-> 2, ok |-> TRUE]
        ELSE IF n < 3 \/ ~IsCont(bs[3]) THEN [n |-> 2, ok |-> FALSE]
        ELSE IF w = 3 THEN [n |-> 3, ok |-> TRUE]
        ELSE IF n < 4 \/ ~IsCont(bs[4]) THEN [n |-> 3, ok |-> FALSE]
        ELSE [n |-> 4, ok |-> TRUE]

\* String::from_utf8_lossy: the code points of the decoded text
RECURSIVE from_utf8_lossy(_)
from_utf8_lossy(bs) ==
    IF bs = <<>> THEN <<>>
    ELSE LET h == LossyHead(bs)
         IN  <<IF h.ok THEN DecodeChar(Take(bs, h.n)) ELSE REPLACEMENT_CHARACTER>>
                 \o from_utf8_lossy(Drop(bs, h.n))

\* bs is well-formed UTF-8
RECURSIVE ValidUtf8(_)
ValidUtf8(bs) ==
    \/ bs = <<>>
    \/ LET h == LossyHead(bs) IN h.ok /\ ValidUtf8(Drop(bs, h.n))

(***************************************************************************)
(* Results of the operations: Option<T>.                                   *)
(***************************************************************************)
None == [some |-> FALSE, val |-> <<>>]
Some(v) == [some |-> TRUE, val |-> v]

(***************************************************************************)
(* The reader behind a scanner (std::io::Read): a read into a destination  *)
(* of destLen bytes delivers the bytes up to the next split point, the end *)
(* of the input or the end of the destination, whichever comes first.      *)
(***************************************************************************)
NextStop(pos, splits) ==
    LET later == {k \in splits : k > pos}
    IN  IF later = {} THEN Len(input)
        ELSE CHOOSE k \in later : \A j \in later : k <= j

reader_read(pos, splits, destLen) == Min(destLen, Min(NextStop(pos, splits), Len(input)) - pos)


(***************************************************************************)
(* Scanner (src/src/scanner.rs).  A scanner is a record                    *)
(*   buf   : 0..BUFFER_SIZE-1 -> byte      off, len : buf_offset, buf_length*)
(*   pos, sp : the reader (bytes delivered, split points)                  *)
(*   eaten : bytes removed from the buffer so far (history)                *)
(*   oob   : a compaction copy has read past the end of buf (history)      *)
(*   starved : a read was given an empty destination and the operation     *)
(*           took its 0 for the end of the input (history)                 *)
(***************************************************************************)
\* what a read outside buf yields: no byte value
OutOfBounds == -1

NewScanner(splits) ==
    [buf |-> [i \in 0..(BUFFER_SIZE - 1) |-> 0], off |-> 0, len |-> 0,
     pos |-> 0, sp |-> splits, eaten |-> 0, oob |-> FALSE, starved |-> FALSE]

\* buf[off .. off+n)
Slice(s, n) == [i \in 1..n |-> s.buf[s.off + i - 1]]
Live(s) == Slice(s, s.len)
\* the input no operation has consumed yet
Unread(s) == Live(s) \o Drop(input, s.pos)

Ret(s, v) == [s |-> s, ret |-> v, fault |-> FALSE, matched |-> FALSE]
\* the call found its boundary and returns Some(v)
RetMatched(s, v) == [s |-> s, ret |-> Some(v), fault |-> FALSE, matched |-> TRUE]
\* the call panics (an arithmetic overflow or an index out of range)
Panic(s) == [s |-> s, ret |-> None, fault |-> TRUE, matched |-> FALSE]

\* self.reader.read(&mut self.buf[start..]): the size returned
read_size(s, start) == reader_read(s.pos, s.sp, BUFFER_SIZE - start)

\* r is what the operation returns after its read at start has returned 0:
\* the read was starved when its destination self.buf[start..] was empty
EndOfInput(s, start, r) == [r EXCEPT !.s.starved = @ \/ (BUFFER_SIZE - start <= 0)]

\* the read itself, followed by self.buf_length += size
read_into(s, start) ==
    LET n == read_size(s, start)
    IN  [s EXCEPT !.buf = [i \in 0..(BUFFER_SIZE - 1) |->
                              IF i >= start /\ i < start + n
                              THEN input[s.pos + 1 + (i - start)]
                              ELSE s.buf[i]],
                  !.pos = @ + n,
                  !.len = @ + n]

\* a compaction that resets the offset and moves nothing
buf_align_without_copy(s) == [s EXCEPT !.off = 0]

\* copy(buf + buf_offset, buf, buf_length); buf_offset = 0
buf_align_to_frond_end(s) ==
    [s EXCEPT !.buf = [i \in 0..(BUFFER_SIZE - 1) |->
                          IF i < s.len
                          THEN IF s.off + i < BUFFER_SIZE THEN s.buf[s.off + i]
                               ELSE OutOfBounds
                          ELSE s.buf[i]],
              !.off = 0,
              !.oob = @ \/ (s.off + s.len > BUFFER_SIZE)]

\* a buf_left_shift that compacts only once the offset has reached the end of the buffer
buf_left_shift_at_the_end(s, distance) ==
    LET moved == [s EXCEPT !.off = @ + distance, !.eaten = @ + distance]
        s1    == IF BUFFER_SIZE - moved.off <= 0 THEN buf_align_to_frond_end(moved) ELSE moved
    IN  [s1 EXCEPT !.len = @ - distance]

\* a buf_left_shift that never compacts
buf_left_shift_in_place(s, distance) ==
    [s EXCEPT !.off = @ + distance, !.len = @ - distance, !.eaten = @ + distance]

buf_left_shift(s, distance) ==
    LET s1 == [s EXCEPT !.off = @ + distance]
        s2 == IF BUFFER_SIZE - s1.off <= 32 THEN buf_align_to_frond_end(s1) ELSE s1
    IN  [s2 EXCEPT !.len = @ - distance, !.eaten = @ + distance]

\* the refill that opens every extraction: None when nothing can be read
ensure_nonempty(s) ==
    IF s.len # 0 THEN s
    ELSE IF read_size(s, s.off) = 0 THEN [s EXCEPT !.starved = @ \/ (BUFFER_SIZE - s.off <= 0)]
    ELSE read_into(s, s.off)

(***************************************************************************)
(* next_char                                                               *)
(***************************************************************************)
RECURSIVE next_char_multi(_, _)
next_char_multi(s, width) ==
    IF s.len < width
    THEN IF read_size(s, s.off + s.len) = 0
         THEN EndOfInput(s, s.off + s.len,
                         Ret(buf_left_shift(s, 1), Some(<<REPLACEMENT_CHARACTER>>)))
         ELSE next_char_multi(read_into(s, s.off + s.len), width)
    ELSE LET char_str_bytes == Slice(s, width)
         IN  IF from_utf8_ok(char_str_bytes)
             THEN Ret(buf_left_shift(s, width), Some(<<DecodeChar(char_str_bytes)>>))
             ELSE Ret(buf_left_shift(s, 1), Some(<<REPLACEMENT_CHARACTER>>))

\* a next_char that returns a byte of width 0 as it is
next_char_raw_byte(s0) ==
    LET s == ensure_nonempty(s0)
    IN  IF s.len = 0 THEN Ret(s, None)
        ELSE LET e == s.buf[s.off]
                 width == utf8_char_width(e)
             IN  IF width <= 1 THEN Ret(buf_left_shift(s, 1), Some(<<e>>))
                 ELSE next_char_multi(s, width)

next_char(s0) ==
    LET s == ensure_nonempty(s0)
    IN  IF s.len = 0 THEN Ret(s, None)
        ELSE LET e == s.buf[s.off]
                 width == utf8_char_width(e)
             IN  CASE width = 0 -> Ret(buf_left_shift(s, 1), Some(<<REPLACEMENT_CHARACTER>>))
                   [] width = 1 -> Ret(buf_left_shift(s, 1), Some(<<e>>))
                   [] OTHER -> next_char_multi(s, width)

(***************************************************************************)
(* next_line                                                               *)
(***************************************************************************)
RECURSIVE next_line_loop(_, _)
RECURSIVE next_line_multi(_, _, _)

\* the refill that ends an iteration of the loop
next_line_refill(s, temp) ==
    IF s.len = 0
    THEN IF read_size(s, s.off) = 0 THEN EndOfInput(s, s.off, Ret(s, Some(temp)))
         ELSE next_line_loop(read_into(s, s.off), temp)
    ELSE next_line_loop(s, temp)

\* a terminator that looks for its second byte only among the buffered bytes
next_line_terminator_no_refill(s, temp, other) ==
    IF s.len > 1 /\ s.buf[s.off + 1] = other THEN Ret(buf_left_shift(s, 2), Some(temp))
    ELSE Ret(buf_left_shift(s, 1), Some(temp))

\* e is '\n' (other = '\r') or '\r' (other = '\n') at the head of the buffer
next_line_terminator(s, temp, other) ==
    IF s.len = 1 /\ read_size(s, s.off + s.len) = 0
    THEN EndOfInput(s, s.off + s.len, Ret(buf_left_shift(s, 1), Some(temp)))
    ELSE LET s1 == IF s.len = 1 THEN read_into(s, s.off + s.len) ELSE s
         IN  IF s1.buf[s1.off + 1] = other
             THEN Ret(buf_left_shift(s1, 2), Some(temp))
             ELSE Ret(buf_left_shift(s1, 1), Some(temp))

next_line_multi(s, temp, width) ==
    IF s.len < width
    THEN IF read_size(s, s.off + s.len) = 0
         THEN EndOfInput(s, s.off + s.len,
                         Ret(buf_left_shift(s, s.len), Some(temp \o from_utf8_lossy(Live(s)))))
         ELSE next_line_multi(read_into(s, s.off + s.len), temp, width)
    ELSE LET char_str_bytes == Slice(s, width)
         IN  IF from_utf8_ok(char_str_bytes)
             THEN next_line_refill(buf_left_shift(s, width),
                                   Append(temp, DecodeChar(char_str_bytes)))
             ELSE next_line_refill(buf_left_shift(s, 1),
                                   Append(temp, REPLACEMENT_CHARACTER))

next_line_loop(s, temp) ==
    LET e == s.buf[s.off]
        width == utf8_char_width(e)
    IN  CASE width = 0 ->
               next_line_refill(buf_left_shift(s, 1), Append(temp, REPLACEMENT_CHARACTER))
          [] width = 1 ->
               IF e = LF THEN next_line_terminator(s, temp, CR)
               ELSE IF e = CR THEN next_line_terminator(s, temp, LF)
               ELSE next_line_refill(buf_left_shift(s, 1), Append(temp, e))
          [] OTHER -> next_line_multi(s, temp, width)

next_line(s0) ==
    LET s == ensure_nonempty(s0)
    IN  IF s.len = 0 THEN Ret(s, None) ELSE next_line_loop(s, <<>>)

(***************************************************************************)
(* next_line_raw                                                           *)
(***************************************************************************)
RECURSIVE next_line_raw_loop(_, _)
RECURSIVE next_line_raw_multi(_, _, _)

next_line_raw_refill(s, temp) ==
    IF s.len = 0
    THEN IF read_size(s, s.off) = 0 THEN EndOfInput(s, s.off, Ret(s, Some(temp)))
         ELSE next_line_raw_loop(read_into(s, s.off), temp)
    ELSE next_line_raw_loop(s, temp)

\* a terminator that never looks for its second byte
next_line_raw_terminator_single(s, temp, other) == Ret(buf_left_shift(s, 1), Some(temp))

next_line_raw_terminator(s, temp, other) ==
    IF s.len = 1 /\ read_size(s, s.off + s.len) = 0
    THEN EndOfInput(s, s.off + s.len, Ret(buf_left_shift(s, 1), Some(temp)))
    ELSE LET s1 == IF s.len = 1 THEN read_into(s, s.off + s.len) ELSE s
         IN  IF s1.buf[s1.off + 1] = other
             THEN Ret(buf_left_shift(s1, 2), Some(temp))
             ELSE Ret(buf_left_shift(s1, 1), Some(temp))

next_line_raw_multi(s, temp, width) ==
    IF s.len < width
    THEN IF read_size(s, s.off + s.len) = 0
         THEN EndOfInput(s, s.off + s.len, Ret(buf_left_shift(s, s.len), Some(temp \o Live(s))))
         ELSE next_line_raw_multi(read_into(s, s.off + s.len), temp, width)
    ELSE next_line_raw_refill(buf_left_shift(s, width), temp \o Slice(s, width))

next_line_raw_loop(s, temp) ==
    LET e == s.buf[s.off]
        width == utf8_char_width(e)
    IN  CASE width = 0 -> next_line_raw_refill(buf_left_shift(s, 1), Append(temp, e))
          [] width = 1 ->
               IF e = LF THEN next_line_raw_terminator(s, temp, CR)
               ELSE IF e = CR THEN next_line_raw_terminator(s, temp, LF)
               ELSE next_line_raw_refill(buf_left_shift(s, 1), Append(temp, e))
          [] OTHER -> next_line_raw_multi(s, temp, width)

next_line_raw(s0) ==
    LET s == ensure_nonempty(s0)
    IN  IF s.len = 0 THEN Ret(s, None) ELSE next_line_raw_loop(s, <<>>)


(***************************************************************************)
(* skip_whitespaces                                                        *)
(***************************************************************************)
RECURSIVE skip_whitespaces_loop(_)
RECURSIVE skip_whitespaces_three(_)

skip_whitespaces_refill(s) ==
    IF s.len = 0
    THEN IF read_size(s, s.off) = 0 THEN EndOfInput(s, s.off, Ret(s, TRUE))
         ELSE skip_whitespaces_loop(read_into(s, s.off))
    ELSE skip_whitespaces_loop(s)

skip_whitespaces_three(s) ==
    IF s.len < 3
    THEN IF read_size(s, s.off + s.len) = 0 THEN EndOfInput(s, s.off + s.len, Ret(s, TRUE))
         ELSE skip_whitespaces_three(read_into(s, s.off + s.len))
    ELSE IF is_whitespace_3(s.buf[s.off], s.buf[s.off + 1], s.buf[s.off + 2])
         THEN skip_whitespaces_refill(buf_left_shift(s, 3))
         ELSE Ret(s, TRUE)

skip_whitespaces_loop(s) ==
    LET e == s.buf[s.off]
        width == utf8_char_width(e)
    IN  CASE width = 1 ->
               IF ~is_whitespace_1(e) THEN Ret(s, TRUE)
               ELSE skip_whitespaces_refill(buf_left_shift(s, 1))
          [] width = 3 -> skip_whitespaces_three(s)
          [] OTHER -> Ret(s, TRUE)

\* a skip_whitespaces that tells whether bytes were skipped
skip_whitespaces_moved(s0) ==
    LET s == ensure_nonempty(s0)
        r == skip_whitespaces_loop(s)
    IN  IF s.len = 0 THEN Ret(s, FALSE) ELSE Ret(r.s, r.s.eaten > s0.eaten)

\* ret is the bool the call returns
skip_whitespaces(s0) ==
    LET s == ensure_nonempty(s0)
    IN  IF s.len = 0 THEN Ret(s, FALSE) ELSE skip_whitespaces_loop(s)

(***************************************************************************)
(* next_raw                                                                *)
(***************************************************************************)
RECURSIVE next_raw_loop(_, _)
RECURSIVE next_raw_three(_, _)
RECURSIVE next_raw_multi(_, _, _)

next_raw_refill(s, temp) ==
    IF s.len = 0
    THEN IF read_size(s, s.off) = 0 THEN EndOfInput(s, s.off, Ret(s, Some(temp)))
         ELSE next_raw_loop(read_into(s, s.off), temp)
    ELSE next_raw_loop(s, temp)

\* a 3-byte character that is never taken for whitespace
next_raw_three_blind(s, temp) == next_raw_multi(s, temp, 3)

next_raw_three(s, temp) ==
    IF s.len < 3
    THEN IF read_size(s, s.off + s.len) = 0
         THEN EndOfInput(s, s.off + s.len, Ret(buf_left_shift(s, s.len), Some(temp)))
         ELSE next_raw_three(read_into(s, s.off + s.len), temp)
    ELSE IF is_whitespace_3(s.buf[s.off], s.buf[s.off + 1], s.buf[s.off + 2])
         THEN Ret(s, Some(temp))
         ELSE next_raw_refill(buf_left_shift(s, 3), temp \o Slice(s, 3))

next_raw_multi(s, temp, width) ==
    IF s.len < width
    THEN IF read_size(s, s.off + s.len) = 0
         THEN EndOfInput(s, s.off + s.len, Ret(buf_left_shift(s, s.len), Some(temp \o Live(s))))
         ELSE next_raw_multi(read_into(s, s.off + s.len), temp, width)
    ELSE next_raw_refill(buf_left_shift(s, width), temp \o Slice(s, width))

next_raw_loop(s, temp) ==
    LET e == s.buf[s.off]
        width == utf8_char_width(e)
    IN  CASE width = 0 -> next_raw_refill(buf_left_shift(s, 1), Append(temp, e))
          [] width = 1 ->
               IF is_whitespace_1(e) THEN Ret(s, Some(temp))
               ELSE next_raw_refill(buf_left_shift(s, 1), Append(temp, e))
          [] width = 3 -> next_raw_three(s, temp)
          [] OTHER -> next_raw_multi(s, temp, width)

next_raw(s0) ==
    LET k == skip_whitespaces(s0)
    IN  IF ~k.ret THEN Ret(k.s, None)
        ELSE LET s == ensure_nonempty(k.s)
             IN  IF s.len = 0 THEN Ret(s, None) ELSE next_raw_loop(s, <<>>)

(***************************************************************************)
(* drop_next: c is the count it returns                                    *)
(***************************************************************************)
RECURSIVE drop_next_loop(_, _)
RECURSIVE drop_next_multi(_, _, _)

drop_next_refill(s, c) ==
    IF s.len = 0
    THEN IF read_size(s, s.off) = 0 THEN EndOfInput(s, s.off, Ret(s, Some(<<c>>)))
         ELSE drop_next_loop(read_into(s, s.off), c)
    ELSE drop_next_loop(s, c)

\* the branches 3 and _: on the end of the input buf_length is added to c
\* after buf_left_shift has set it to 0, and a complete character is
\* removed without being counted
drop_next_multi(s, c, width) ==
    IF s.len < width
    THEN IF read_size(s, s.off + s.len) = 0
         THEN EndOfInput(s, s.off + s.len,
                         LET s1 == buf_left_shift(s, s.len) IN Ret(s1, Some(<<c + s1.len>>)))
         ELSE drop_next_multi(read_into(s, s.off + s.len), c, width)
    ELSE IF width = 3 /\ is_whitespace_3(s.buf[s.off], s.buf[s.off + 1], s.buf[s.off + 2])
         THEN Ret(s, Some(<<c>>))
         ELSE drop_next_refill(buf_left_shift(s, width), c)

drop_next_loop(s, c) ==
    LET e == s.buf[s.off]
        width == utf8_char_width(e)
    IN  CASE width = 0 -> drop_next_refill(buf_left_shift(s, 1), c + 1)
          [] width = 1 ->
               IF is_whitespace_1(e) THEN Ret(s, Some(<<c>>))
               ELSE drop_next_refill(buf_left_shift(s, 1), c + 1)
          [] OTHER -> drop_next_multi(s, c, width)

drop_next(s0) ==
    LET k == skip_whitespaces(s0)
    IN  IF ~k.ret THEN Ret(k.s, None)
        ELSE LET s == ensure_nonempty(k.s)
             IN  IF s.len = 0 THEN Ret(s, None) ELSE drop_next_loop(s, 0)

(***************************************************************************)
(* next                                                                    *)
(***************************************************************************)
RECURSIVE next_loop(_, _)
RECURSIVE next_multi(_, _, _)

next_refill(s, temp) ==
    IF s.len = 0
    THEN IF read_size(s, s.off) = 0 THEN EndOfInput(s, s.off, Ret(s, Some(temp)))
         ELSE next_loop(read_into(s, s.off), temp)
    ELSE next_loop(s, temp)

\* a character of width 2, 3 or 4 at the head of the buffer; a 3-byte
\* whitespace ends the token
next_multi(s, temp, width) ==
    IF s.len < width
    THEN IF read_size(s, s.off + s.len) = 0
         THEN EndOfInput(s, s.off + s.len,
                         Ret(buf_left_shift(s, s.len), Some(temp \o from_utf8_lossy(Live(s)))))
         ELSE next_multi(read_into(s, s.off + s.len), temp, width)
    ELSE IF width = 3 /\ is_whitespace_3(s.buf[s.off], s.buf[s.off + 1], s.buf[s.off + 2])
         THEN Ret(s, Some(temp))
         ELSE LET char_str_bytes == Slice(s, width)
              IN  IF from_utf8_ok(char_str_bytes)
                  THEN next_refill(buf_left_shift(s, width),
                                   Append(temp, DecodeChar(char_str_bytes)))
                  ELSE next_refill(buf_left_shift(s, 1), Append(temp, REPLACEMENT_CHARACTER))

next_loop(s, temp) ==
    LET e == s.buf[s.off]
        width == utf8_char_width(e)
    IN  CASE width = 0 -> next_refill(buf_left_shift(s, 1), Append(temp, REPLACEMENT_CHARACTER))
          [] width = 1 ->
               IF is_whitespace_1(e) THEN Ret(s, Some(temp))
               ELSE next_refill(buf_left_shift(s, 1), Append(temp, e))
          [] OTHER -> next_multi(s, temp, width)

next(s0) ==
    LET k == skip_whitespaces(s0)
    IN  IF ~k.ret THEN Ret(k.s, None)
        ELSE LET s == ensure_nonempty(k.s)
             IN  IF s.len = 0 THEN Ret(s, None) ELSE next_loop(s, <<>>)

(***************************************************************************)
(* next_until_raw                                                          *)
(***************************************************************************)
\* the while loop over the buffered bytes: p and b when it ends, and
\* whether it ended on a complete match
RECURSIVE until_scan(_, _, _, _)
until_scan(s, bd, p, b) ==
    IF p >= s.len THEN [found |-> FALSE, p |-> p, b |-> b]
    ELSE IF s.buf[s.off + p] = bd[b + 1]
         THEN IF b + 1 = Len(bd) THEN [found |-> TRUE, p |-> p + 1, b |-> b + 1]
              ELSE until_scan(s, bd, p + 1, b + 1)
         ELSE until_scan(s, bd, p + 1, 0)

\* the loop that measures the whole characters at the head of the buffer
RECURSIVE utf8_length(_, _)
utf8_length(s, n) ==
    LET width == Max(utf8_char_width(s.buf[s.off + n]), 1)
    IN  IF n + width = s.len THEN n + width
        ELSE IF n + width > s.len THEN n
        ELSE utf8_length(s, n + width)

\* what the match does to temp: extend, keep or truncate
until_matched(s, temp, p, boundary_length) ==
    IF p = boundary_length THEN RetMatched(buf_left_shift(s, p), temp)
    ELSE IF p > boundary_length
         THEN RetMatched(buf_left_shift(s, p), temp \o Slice(s, p - boundary_length))
         ELSE IF Len(temp) < boundary_length - p THEN Panic(s)
              ELSE RetMatched(buf_left_shift(s, p),
                              Take(temp, Len(temp) - (boundary_length - p)))

RECURSIVE next_until_raw_loop(_, _, _, _)
next_until_raw_loop(s, bd, temp, b) ==
    LET m == until_scan(s, bd, 0, b)
    IN  IF s.len > 0 /\ b >= Len(bd) THEN Panic(s)
        ELSE IF m.found THEN until_matched(s, temp, m.p, Len(bd))
        ELSE LET n == utf8_length(s, 0)
                 temp1 == temp \o Slice(s, n)
                 s1 == buf_left_shift(s, n)
             IN  IF read_size(s1, s1.off + s1.len) = 0 THEN EndOfInput(s1, s1.off + s1.len, Ret(s1, Some(temp1)))
                 ELSE next_until_raw_loop(read_into(s1, s1.off + s1.len), bd, temp1, m.b)

next_until_raw(s0, bd) ==
    LET s == ensure_nonempty(s0)
    IN  IF s.len = 0 THEN Ret(s, None) ELSE next_until_raw_loop(s, bd, <<>>, 0)

\* drop_next_until: the count c takes the place of temp
RECURSIVE drop_next_until_loop(_, _, _, _)
drop_next_until_loop(s, bd, c, b) ==
    LET m == until_scan(s, bd, 0, b)
    IN  IF s.len > 0 /\ b >= Len(bd) THEN Panic(s)
        ELSE IF m.found
             THEN IF m.p >= Len(bd)
                  THEN RetMatched(buf_left_shift(s, m.p), <<c + (m.p - Len(bd))>>)
                  ELSE IF c < Len(bd) - m.p THEN Panic(s)
                       ELSE RetMatched(buf_left_shift(s, m.p), <<c - (Len(bd) - m.p)>>)
        ELSE LET n == utf8_length(s, 0)
                 s1 == buf_left_shift(s, n)
             IN  IF read_size(s1, s1.off + s1.len) = 0
                 THEN EndOfInput(s1, s1.off + s1.len, Ret(s1, Some(<<c + n>>)))
                 ELSE drop_next_until_loop(read_into(s1, s1.off + s1.len), bd, c + n, m.b)

drop_next_until(s0, bd) ==
    LET s == ensure_nonempty(s0)
    IN  IF s.len = 0 THEN Ret(s, None) ELSE drop_next_until_loop(s, bd, 0, 0)

(***************************************************************************)
(* next_bytes                                                              *)
(***************************************************************************)
\* the while loop: c bytes of max_number_of_bytes are in temp
RECURSIVE next_bytes_loop(_, _, _, _)
next_bytes_loop(s0, max_number_of_bytes, temp, c) ==
    IF c >= max_number_of_bytes THEN Ret(s0, Some(temp))
    ELSE LET s == ensure_nonempty(s0)
         IN  IF s.len = 0 THEN Ret(s, Some(temp))
             ELSE LET dropping_bytes == Min(s.len, max_number_of_bytes - c)
                  IN  next_bytes_loop(buf_left_shift(s, dropping_bytes), max_number_of_bytes,
                                      temp \o Slice(s, dropping_bytes), c + dropping_bytes)

\* a next_bytes that returns what one read has delivered
next_bytes_of_one_read(s0, max_number_of_bytes) ==
    LET s == ensure_nonempty(s0)
        dropping_bytes == Min(s.len, max_number_of_bytes)
    IN  IF s.len = 0 THEN Ret(s, None)
        ELSE Ret(buf_left_shift(s, dropping_bytes), Some(Slice(s, dropping_bytes)))

next_bytes(s0, max_number_of_bytes) ==
    LET s == ensure_nonempty(s0)
    IN  IF s.len = 0 THEN Ret(s, None)
        ELSE next_bytes_loop(s, max_number_of_bytes, <<>>, 0)

RECURSIVE drop_next_bytes_loop(_, _, _)
drop_next_bytes_loop(s0, max_number_of_bytes, c) ==
    IF c >= max_number_of_bytes THEN Ret(s0, Some(<<c>>))
    ELSE LET s == ensure_nonempty(s0)
         IN  IF s.len = 0 THEN Ret(s, Some(<<c>>))
             ELSE LET dropping_bytes == Min(s.len, max_number_of_bytes - c)
                  IN  drop_next_bytes_loop(buf_left_shift(s, dropping_bytes),
                                           max_number_of_bytes, c + dropping_bytes)

drop_next_bytes(s0, max_number_of_bytes) ==
    LET s == ensure_nonempty(s0)
    IN  IF s.len = 0 THEN Ret(s, None)
        ELSE drop_next_bytes_loop(s, max_number_of_bytes, 0)

(***************************************************************************)
(* peek and remove_heading_bytes_from_buffer                               *)
(***************************************************************************)
\* the loop of peek: read behind the buffered bytes until a read returns 0
RECURSIVE peek_loop(_)
peek_loop(s) ==
    IF s.off + s.len > BUFFER_SIZE THEN Panic(s)
    ELSE IF read_size(s, s.off + s.len) = 0 THEN Ret(s, Some(Live(s)))
    ELSE peek_loop(read_into(s, s.off + s.len))

\* a peek that returns what is buffered and reads nothing
peek_without_reading(s0, shift) ==
    LET s == IF shift THEN buf_align_to_frond_end(s0) ELSE s0
    IN  Ret(s, Some(Live(s)))

\* a peek that takes all the input that remains, whatever room the buffer has
peek_past_the_end(s0, shift) ==
    Ret([s0 EXCEPT !.len = @ + (Len(input) - s0.pos), !.pos = Len(input)], Some(<<>>))

peek(s0, shift) == peek_loop(IF shift THEN buf_align_to_frond_end(s0) ELSE s0)

remove_heading_bytes_from_buffer(s, number_of_bytes) ==
    Ret(buf_left_shift(s, number_of_bytes), Some(<<>>))


(***************************************************************************)
(* ScannerAscii (scanner_ascii.rs): a buffer of N bytes and the pending    *)
(* half of a line terminator, passing_byte.  eaten and oob are history     *)
(* variables as in Scanner.                                                *)
(***************************************************************************)
NewScannerAscii(n, splits) ==
    [buf |-> [i \in 0..(n - 1) |-> 0], n |-> n, off |-> 0, len |-> 0, passing |-> None,
     pos |-> 0, sp |-> splits, eaten |-> 0, oob |-> FALSE]

ascii_read_size(s, start) == reader_read(s.pos, s.sp, s.n - start)

\* self.buf_length += self.reader.read(&mut self.buf[start..])
ascii_read_into(s, start) ==
    LET size == ascii_read_size(s, start)
    IN  [s EXCEPT !.buf = [i \in 0..(s.n - 1) |->
                              IF i >= start /\ i < start + size
                              THEN input[s.pos + (i - start) + 1] ELSE s.buf[i]],
                  !.pos = @ + size,
                  !.len = @ + size]

ascii_buf_align_to_frond_end(s) ==
    [s EXCEPT !.buf = [i \in 0..(s.n - 1) |->
                          IF i < s.len
                          THEN IF s.off + i < s.n THEN s.buf[s.off + i] ELSE OutOfBounds
                          ELSE s.buf[i]],
              !.off = 0,
              !.oob = @ \/ (s.off + s.len > s.n)]

ascii_buf_left_shift(s, distance) ==
    LET s1 == [s EXCEPT !.off = @ + distance]
        s2 == IF s1.off >= s.n - 4 THEN ascii_buf_align_to_frond_end(s1) ELSE s1
    IN  [s2 EXCEPT !.len = @ - distance, !.eaten = @ + distance]

\* [s |-> the scanner afterwards, ok |-> whether there is a byte to look at]
passing_read(s) ==
    IF s.len # 0 THEN [s |-> s, ok |-> TRUE]
    ELSE LET size == ascii_read_size(s, s.off)
             s1 == ascii_read_into(s, s.off)
             s2 == [s1 EXCEPT !.passing = None]
             s3 == ascii_buf_left_shift(s2, 1)
         IN  IF size = 0 THEN [s |-> s, ok |-> FALSE]
             ELSE IF ~s.passing.some THEN [s |-> s1, ok |-> TRUE]
             ELSE IF s2.buf[s2.off] # s.passing.val THEN [s |-> s2, ok |-> TRUE]
             ELSE IF size # 1 THEN [s |-> s3, ok |-> TRUE]
             ELSE IF ascii_read_size(s3, s3.off) = 0 THEN [s |-> s3, ok |-> FALSE]
             ELSE [s |-> ascii_read_into(s3, s3.off), ok |-> TRUE]

ascii_next_char(s0) ==
    LET r == passing_read(s0)
        e == r.s.buf[r.s.off]
    IN  IF ~r.ok THEN Ret(r.s, None)
        ELSE Ret(ascii_buf_left_shift(r.s, 1),
                 Some(<<IF e >= 128 THEN REPLACEMENT_CHARACTER ELSE e>>))

\* a terminator that does not remember the byte to pass
ascii_next_line_terminator_forgetful(s, temp, other) ==
    IF s.len > 1 /\ s.buf[s.off + 1] = other THEN Ret(ascii_buf_left_shift(s, 2), Some(temp))
    ELSE Ret(ascii_buf_left_shift(s, 1), Some(temp))

\* e is '\n' (other = '\r') or '\r' (other = '\n') at the head of the buffer
ascii_next_line_terminator(s, temp, other) ==
    IF s.len = 1
    THEN Ret(ascii_buf_left_shift([s EXCEPT !.passing = Some(other)], 1), Some(temp))
    ELSE IF s.buf[s.off + 1] = other THEN Ret(ascii_buf_left_shift(s, 2), Some(temp))
    ELSE Ret(ascii_buf_left_shift(s, 1), Some(temp))

\* the loop of next_line (raw = FALSE) and of next_line_raw (raw = TRUE)
RECURSIVE ascii_next_line_loop(_, _, _)
ascii_next_line_loop(s, temp, raw) ==
    LET e == s.buf[s.off]
        s1 == ascii_buf_left_shift(s, 1)
        temp1 == Append(temp, IF ~raw /\ e >= 128 THEN REPLACEMENT_CHARACTER ELSE e)
    IN  IF e = LF THEN ascii_next_line_terminator(s, temp, CR)
        ELSE IF e = CR THEN ascii_next_line_terminator(s, temp, LF)
        ELSE IF s1.len # 0 THEN ascii_next_line_loop(s1, temp1, raw)
        ELSE IF ascii_read_size(s1, s1.off) = 0 THEN Ret(s1, Some(temp1))
        ELSE ascii_next_line_loop(ascii_read_into(s1, s1.off), temp1, raw)

ascii_next_line(s0) ==
    LET r == passing_read(s0)
    IN  IF ~r.ok THEN Ret(r.s, None) ELSE ascii_next_line_loop(r.s, <<>>, FALSE)

ascii_next_line_raw(s0) ==
    LET r == passing_read(s0)
    IN  IF ~r.ok THEN Ret(r.s, None) ELSE ascii_next_line_loop(r.s, <<>>, TRUE)

\* a match that leaves the boundary bytes of earlier refills in temp
ascii_until_matched_keep(s, temp, p, boundary_length) ==
    IF p > boundary_length
    THEN RetMatched(ascii_buf_left_shift(s, p), temp \o Slice(s, p - boundary_length))
    ELSE RetMatched(ascii_buf_left_shift(s, p), temp)

\* what the match does to temp: extend, keep or truncate
ascii_until_matched(s, temp, p, boundary_length) ==
    IF p = boundary_length THEN RetMatched(ascii_buf_left_shift(s, p), temp)
    ELSE IF p > boundary_length
         THEN RetMatched(ascii_buf_left_shift(s, p), temp \o Slice(s, p - boundary_length))
         ELSE IF Len(temp) < boundary_length - p THEN Panic(s)
              ELSE RetMatched(ascii_buf_left_shift(s, p),
                              Take(temp, Len(temp) - (boundary_length - p)))

RECURSIVE ascii_next_until_raw_loop(_, _, _, _)
ascii_next_until_raw_loop(s, bd, temp, b) ==
    LET m == until_scan(s, bd, 0, b)
    IN  IF m.found THEN ascii_until_matched(s, temp, m.p, Len(bd))
        ELSE LET temp1 == temp \o Live(s)
                 s1 == ascii_buf_left_shift(s, s.len)
             IN  IF ascii_read_size(s1, s1.off) = 0 THEN Ret(s1, Some(temp1))
                 ELSE ascii_next_until_raw_loop(ascii_read_into(s1, s1.off), bd, temp1, m.b)

ascii_next_until_raw(s0, bd) ==
    LET r == passing_read(s0)
    IN  IF ~r.ok THEN Ret(r.s, None) ELSE ascii_next_until_raw_loop(r.s, bd, <<>>, 0)

\* the loop of skip_whitespaces
RECURSIVE ascii_skip_whitespaces_loop(_)
ascii_skip_whitespaces_loop(s) ==
    IF ~is_whitespace_1(s.buf[s.off]) THEN Ret(s, TRUE)
    ELSE LET s1 == ascii_buf_left_shift(s, 1)
         IN  IF s1.len # 0 THEN ascii_skip_whitespaces_loop(s1)
             ELSE IF ascii_read_size(s1, s1.off) = 0 THEN Ret(s1, TRUE)
             ELSE ascii_skip_whitespaces_loop(ascii_read_into(s1, s1.off))

\* ret is the bool the call returns
ascii_skip_whitespaces(s0) ==
    LET r == passing_read(s0)
    IN  IF ~r.ok THEN Ret(r.s, FALSE) ELSE ascii_skip_whitespaces_loop(r.s)

\* the loop of next (raw = FALSE) and of next_raw (raw = TRUE)
RECURSIVE ascii_next_loop(_, _, _)
ascii_next_loop(s, temp, raw) ==
    LET e == s.buf[s.off]
        s1 == ascii_buf_left_shift(s, 1)
        temp1 == Append(temp, IF ~raw /\ e >= 128 THEN REPLACEMENT_CHARACTER ELSE e)
    IN  IF is_whitespace_1(e) THEN Ret(s, Some(temp))
        ELSE IF s1.len # 0 THEN ascii_next_loop(s1, temp1, raw)
        ELSE IF ascii_read_size(s1, s1.off) = 0 THEN Ret(s1, Some(temp1))
        ELSE ascii_next_loop(ascii_read_into(s1, s1.off), temp1, raw)

\* a token reader that takes the whitespace that ends the token as well
ascii_next_token_greedy(s0, raw) ==
    LET k == ascii_skip_whitespaces(s0)
        s == IF k.s.len = 0 THEN ascii_read_into(k.s, k.s.off) ELSE k.s
        r == ascii_next_loop(s, <<>>, raw)
    IN  IF ~k.ret \/ s.len = 0 THEN Ret(s, None)
        ELSE IF r.s.len = 0 THEN r
        ELSE Ret(ascii_buf_left_shift(r.s, 1), r.ret)

ascii_next_token(s0, raw) ==
    LET k == ascii_skip_whitespaces(s0)
        s == IF k.s.len = 0 THEN ascii_read_into(k.s, k.s.off) ELSE k.s
    IN  IF ~k.ret THEN Ret(k.s, None)
        ELSE IF s.len = 0 THEN Ret(s, None)
        ELSE ascii_next_loop(s, <<>>, raw)

ascii_next(s0) == ascii_next_token(s0, FALSE)

ascii_next_raw(s0) == ascii_next_token(s0, TRUE)

\* the loop of peek: read behind the buffered bytes until a read returns 0;
\* passing_byte is neither looked at nor cleared
RECURSIVE ascii_peek_loop(_)
ascii_peek_loop(s) ==
    IF ascii_read_size(s, s.off + s.len) = 0 THEN Ret(s, Some(Live(s)))
    ELSE ascii_peek_loop(ascii_read_into(s, s.off + s.len))

ascii_peek(s0, shift) ==
    ascii_peek_loop(IF shift THEN ascii_buf_align_to_frond_end(s0) ELSE s0)

\* the input a ScannerAscii operation has still to deliver: the buffered
\* bytes and the bytes not read yet, without the terminator half that the
\* pending passing_byte will absorb
AsciiUnread(s) ==
    LET rest == Live(s) \o Drop(input, s.pos)
    IN  IF s.len = 0 /\ s.passing.some /\ rest # <<>> /\ Head(rest) = s.passing.val
        THEN Tail(rest) ELSE rest

(***************************************************************************)
(* The capacity-configurable Scanner (lib.rs): a buffer of `capacity`      *)
(* bytes of which the first `position` are buffered input, and last_cr.    *)
(***************************************************************************)
with_capacity(capacity, splits) ==
    [buffer |-> [i \in 0..(capacity - 1) |-> 0], cap |-> capacity, position |-> 0,
     last_cr |-> FALSE, pos |-> 0, sp |-> splits]

lib_read_size(s) == reader_read(s.pos, s.sp, s.cap - s.position)

\* self.position += self.reader.read(&mut self.buffer[self.position..])
lib_read(s) ==
    LET size == lib_read_size(s)
    IN  [s EXCEPT !.buffer = [i \in 0..(s.cap - 1) |->
                                 IF i >= s.position /\ i < s.position + size
                                 THEN input[s.pos + (i - s.position) + 1] ELSE s.buffer[i]],
                  !.pos = @ + size,
                  !.position = @ + size]

\* the first n bytes of the buffer
Buffered(s, n) == [i \in 1..n |-> s.buffer[i - 1]]

pull(s, length) ==
    IF length < s.position
    THEN [s EXCEPT !.buffer = [i \in 0..(s.cap - 1) |->
                                  IF i < s.position - length THEN s.buffer[length + i]
                                  ELSE s.buffer[i]],
                   !.position = @ - length]
    ELSE [s EXCEPT !.position = 0]

\* while self.position < wp { read; if size == 0 { break } }
RECURSIVE fetch_next_line_fill(_, _)
fetch_next_line_fill(s, wp) ==
    IF s.position < wp /\ lib_read_size(s) # 0 THEN fetch_next_line_fill(lib_read(s), wp)
    ELSE s

Fetched(s, temp, t, cr) == [s |-> s, temp |-> temp, t |-> t, cr |-> cr]

\* the loop of fetch_next_line: fetch_next_line_loop is the match on the
\* width of buffer[p], fetch_next_line_refill the `if p == self.position`
\* that ends the loop body
RECURSIVE fetch_next_line_loop(_, _, _)
RECURSIVE fetch_next_line_refill(_, _, _)
fetch_next_line_loop(s, temp, p) ==
    LET width == utf8_char_width(s.buffer[p])
        over == width + p > s.cap
        temp1 == IF over THEN temp \o Buffered(s, s.position) ELSE temp
        wp == IF over THEN width - 1 ELSE width + p
        s1 == fetch_next_line_fill(IF over THEN [s EXCEPT !.position = 0] ELSE s, wp)
    IN  IF width = 1 /\ s.buffer[p] = LF THEN Fetched(s, temp, Some(p), FALSE)
        ELSE IF width = 1 /\ s.buffer[p] = CR THEN Fetched(s, temp, Some(p), TRUE)
        ELSE IF width <= 1 THEN fetch_next_line_refill(s, temp, p + 1)
        ELSE IF s1.position < wp THEN Fetched(s1, temp1, Some(s1.position), FALSE)
        ELSE fetch_next_line_refill(s1, temp1, wp)

fetch_next_line_refill(s, temp, p) ==
    IF p # s.position THEN fetch_next_line_loop(s, temp, p)
    ELSE IF p = s.cap
         THEN LET temp1 == temp \o Buffered(s, s.cap)
                  s1 == [s EXCEPT !.position = 0]
              IN  IF lib_read_size(s1) = 0 THEN Fetched(s1, temp1, None, FALSE)
                  ELSE fetch_next_line_loop(lib_read(s1), temp1, 0)
         ELSE IF lib_read_size(s) = 0 THEN Fetched(s, temp, Some(p), FALSE)
              ELSE fetch_next_line_loop(lib_read(s), temp, p)

fetch_next_line(s) ==
    IF s.position # 0 THEN fetch_next_line_loop(s, <<>>, 0)
    ELSE IF lib_read_size(s) = 0 THEN Fetched(s, <<>>, None, FALSE)
    ELSE fetch_next_line_loop(lib_read(s), <<>>, 0)

\* next_char once the buffer holds the lead byte of a character
lib_next_char_head(s) ==
    LET width == utf8_char_width(s.buffer[0])
        s1 == IF width > 1 THEN fetch_next_line_fill(s, width) ELSE s
    IN  CASE width = 0 -> Ret(pull(s, 1), Some(<<REPLACEMENT_CHARACTER>>))
          [] width = 1 -> Ret(pull(s, 1), Some(<<s.buffer[0]>>))
          [] OTHER ->
               IF s1.position < width THEN Ret(pull(s1, 1), None)
               ELSE IF from_utf8_ok(Buffered(s1, width))
                    THEN Ret(pull(s1, width), Some(<<DecodeChar(Buffered(s1, width))>>))
                    ELSE Ret(pull(s1, 1), None)

lib_next_char(s0) ==
    LET s == [s0 EXCEPT !.last_cr = FALSE]
    IN  IF s.position # 0 THEN lib_next_char_head(s)
        ELSE IF lib_read_size(s) = 0 THEN Ret(s, None)
        ELSE lib_next_char_head(lib_read(s))

\* what fetch_next_non_whitespace and fetch_next_whitespace hand back: the
\* bytes set aside, the index found, and whether an index was out of range
Found(s, temp, t, fault) == [s |-> s, temp |-> temp, t |-> t, fault |-> fault]

\* the loop of fetch_next_non_whitespace: the match on the width of
\* buffer[p], its multi-byte arm once the while loop has read, and the
\* `if p == self.position` that ends the loop body
RECURSIVE fetch_next_non_whitespace_loop(_, _)
RECURSIVE fetch_next_non_whitespace_multi(_, _, _, _)
RECURSIVE fetch_next_non_whitespace_refill(_, _)
fetch_next_non_whitespace_loop(s, p) ==
    LET width == utf8_char_width(s.buffer[p])
    IN  IF width = 0 THEN Found(s, <<>>, Some(p), FALSE)
        ELSE IF width = 1
             THEN IF ~is_whitespace_1(s.buffer[p]) THEN Found(s, <<>>, Some(p), FALSE)
                  ELSE fetch_next_non_whitespace_refill(s, p + 1)
        ELSE IF width + p > s.cap
             THEN fetch_next_non_whitespace_multi(
                      fetch_next_line_fill([s EXCEPT !.buffer[0] = s.buffer[p], !.position = 1],
                                           width),
                      0, width, width)
             ELSE fetch_next_non_whitespace_multi(fetch_next_line_fill(s, width + p),
                                                  p, width + p, width)

fetch_next_non_whitespace_multi(s, p, wp, width) ==
    IF s.position < wp THEN Found(s, <<>>, Some(p), FALSE)
    ELSE IF width = 3 /\ ~is_whitespace_3(s.buffer[p], s.buffer[p + 1], s.buffer[p + 2])
         THEN Found(s, <<>>, Some(p), FALSE)
    ELSE fetch_next_non_whitespace_refill(s, wp)

fetch_next_non_whitespace_refill(s, p) ==
    IF p # s.position THEN fetch_next_non_whitespace_loop(s, p)
    ELSE IF lib_read_size([s EXCEPT !.position = IF p = s.cap THEN 0 ELSE p]) = 0
         THEN Found([s EXCEPT !.position = IF p = s.cap THEN 0 ELSE p], <<>>, None, FALSE)
    ELSE fetch_next_non_whitespace_loop(
             lib_read([s EXCEPT !.position = IF p = s.cap THEN 0 ELSE p]),
             IF p = s.cap THEN 0 ELSE p)

fetch_next_non_whitespace(s) ==
    IF s.position # 0 THEN fetch_next_non_whitespace_loop(s, 0)
    ELSE IF lib_read_size(s) = 0 THEN Found(s, <<>>, None, FALSE)
    ELSE fetch_next_non_whitespace_loop(lib_read(s), 0)

\* the loop of fetch_next_whitespace, in the same three parts; p is the
\* index the is_whitespace_3 test reads at, which the `if wp > len` arm
\* leaves where it was
RECURSIVE fetch_next_whitespace_loop(_, _, _)
RECURSIVE fetch_next_whitespace_multi(_, _, _, _, _)
RECURSIVE fetch_next_whitespace_refill(_, _, _)
fetch_next_whitespace_loop(s, temp, p) ==
    LET width == utf8_char_width(s.buffer[p])
    IN  IF width = 0 THEN fetch_next_whitespace_refill(s, temp, p + 1)
        ELSE IF width = 1
             THEN IF is_whitespace_1(s.buffer[p]) THEN Found(s, temp, Some(p), FALSE)
                  ELSE fetch_next_whitespace_refill(s, temp, p + 1)
        ELSE IF width + p > s.cap
             THEN fetch_next_whitespace_multi(
                      fetch_next_line_fill([s EXCEPT !.position = 0], width - 1),
                      temp \o Buffered(s, s.position), p, width - 1, width)
             ELSE fetch_next_whitespace_multi(fetch_next_line_fill(s, width + p),
                                              temp, p, width + p, width)

fetch_next_whitespace_multi(s, temp, p, wp, width) ==
    IF s.position < wp THEN Found(s, temp, Some(s.position), FALSE)
    ELSE IF width = 3 /\ p + 2 >= s.cap THEN Found(s, temp, None, TRUE)
    ELSE IF width = 3 /\ is_whitespace_3(s.buffer[p], s.buffer[p + 1], s.buffer[p + 2])
         THEN Found(s, temp, Some(p), FALSE)
    ELSE fetch_next_whitespace_refill(s, temp, wp)

fetch_next_whitespace_refill(s, temp, p) ==
    IF p # s.position THEN fetch_next_whitespace_loop(s, temp, p)
    ELSE IF p = s.cap
         THEN IF lib_read_size([s EXCEPT !.position = 0]) = 0
              THEN Found([s EXCEPT !.position = 0], temp \o Buffered(s, s.cap), None, FALSE)
              ELSE fetch_next_whitespace_loop(lib_read([s EXCEPT !.position = 0]),
                                              temp \o Buffered(s, s.cap), 0)
    ELSE IF lib_read_size(s) = 0 THEN Found(s, temp, Some(p), FALSE)
    ELSE fetch_next_whitespace_loop(lib_read(s), temp, p)

fetch_next_whitespace(s) ==
    IF s.position # 0 THEN fetch_next_whitespace_loop(s, <<>>, 0)
    ELSE IF lib_read_size(s) = 0 THEN Found(s, <<>>, None, FALSE)
    ELSE fetch_next_whitespace_loop(lib_read(s), <<>>, 0)

\* skip_whitespaces once fetch_next_non_whitespace has answered
lib_skip_whitespaces_pull(result) ==
    IF result.t.some THEN Ret(pull(result.s, result.t.val), TRUE)
    ELSE Ret(result.s, FALSE)

lib_skip_whitespaces(s0) ==
    lib_skip_whitespaces_pull(fetch_next_non_whitespace([s0 EXCEPT !.last_cr = FALSE]))

\* next once fetch_next_whitespace has answered
lib_next_token(result) ==
    IF result.fault THEN Panic(result.s)
    ELSE IF result.t.some
         THEN Ret(pull(result.s, result.t.val),
                  Some(from_utf8_lossy(result.temp \o Buffered(result.s, result.t.val))))
    ELSE IF result.temp = <<>> THEN Ret(result.s, None)
    ELSE Ret(result.s, Some(from_utf8_lossy(result.temp)))

\* next once skip_whitespaces has answered
lib_next_skipped(skipped) ==
    IF ~skipped.ret THEN Ret(skipped.s, None)
    ELSE lib_next_token(fetch_next_whitespace(skipped.s))

lib_next(s0) == lib_next_skipped(lib_skip_whitespaces(s0))

\* a next_line that does not know last_cr
lib_next_line_without_last_cr(s) ==
    LET result == fetch_next_line(s)
        v == IF result.t.some THEN result.temp \o Buffered(result.s, result.t.val)
             ELSE result.temp
        s1 == IF result.t.some THEN pull(result.s, result.t.val + 1) ELSE result.s
    IN  IF ~result.t.some /\ v = <<>> THEN Ret(s1, None)
        ELSE Ret([s1 EXCEPT !.last_cr = result.cr], Some(from_utf8_lossy(v)))

RECURSIVE lib_next_line(_)
lib_next_line(s) ==
    LET result == fetch_next_line(s)
        v == IF result.t.some THEN result.temp \o Buffered(result.s, result.t.val)
             ELSE result.temp
        s1 == IF result.t.some THEN pull(result.s, result.t.val + 1) ELSE result.s
    IN  IF result.t.some /\ v = <<>> /\ ~result.cr /\ s1.last_cr
        THEN lib_next_line([s1 EXCEPT !.last_cr = FALSE])
        ELSE IF ~result.t.some /\ v = <<>> THEN Ret(s1, None)
        ELSE Ret([s1 EXCEPT !.last_cr = result.cr], Some(from_utf8_lossy(v)))

(***************************************************************************)
(* ScannerU8Slice (scanner_u8_slice.rs): the data is the input and the     *)
(* scanner is its position in it.  get_width is utf8_char_width.           *)
(***************************************************************************)
NewScannerU8Slice == [position |-> 0]

\* &self.data[a..b]
Data(a, b) == SubSeq(input, a + 1, b)

SliceUnread(u) == Data(u.position, Len(input))

\* return data[position..p) and stand at q
SliceRet(u, p, q) == Ret([u EXCEPT !.position = q], Some(Data(u.position, p)))

RECURSIVE slice_skip_whitespaces_loop(_)
slice_skip_whitespaces_loop(u) ==
    LET e == input[u.position + 1]
        width == utf8_char_width(e)
        u1 == CASE width = 1 /\ is_whitespace_1(e) -> [u EXCEPT !.position = @ + 1]
                [] width = 3 /\ u.position + width <= Len(input)
                       /\ is_whitespace_3(input[u.position + 1], input[u.position + 2],
                                          input[u.position + 3]) ->
                       [u EXCEPT !.position = @ + 3]
                [] OTHER -> u
    IN  IF u1 = u \/ u1.position = Len(input) THEN Ret(u1, TRUE)
        ELSE slice_skip_whitespaces_loop(u1)

\* a skip_whitespaces that tells whether the position moved
slice_skip_whitespaces_moved(u0) ==
    LET white == {k \in 0..(Len(input) - u0.position) :
                     \A i \in 1..k : is_whitespace_1(input[u0.position + i])}
        k == CHOOSE k \in white : \A j \in white : j <= k
    IN  Ret([u0 EXCEPT !.position = @ + k], k > 0)

\* ret is the bool the call returns
slice_skip_whitespaces(u0) ==
    IF u0.position = Len(input) THEN Ret(u0, FALSE) ELSE slice_skip_whitespaces_loop(u0)

\* the loop of next; p is past the data when the code indexes out of range
RECURSIVE slice_next_loop(_, _)
slice_next_loop(u, p) ==
    IF p > Len(input) THEN Panic(u)
    ELSE IF p = Len(input) THEN SliceRet(u, p, p)
    ELSE LET e == input[p + 1]
             width == utf8_char_width(e)
         IN  CASE width = 0 -> slice_next_loop(u, p + 1)
               [] width = 1 ->
                    IF is_whitespace_1(e) THEN SliceRet(u, p, p)
                    ELSE slice_next_loop(u, p + 1)
               [] width = 3 ->
                    IF u.position + width > Len(input)
                    THEN SliceRet(u, Len(input), Len(input))
                    ELSE IF is_whitespace_3(input[u.position + 1], input[u.position + 2],
                                            input[u.position + 3])
                         THEN SliceRet(u, p, p)
                         ELSE slice_next_loop(u, p + 3)
               [] OTHER ->
                    IF u.position + width >= Len(input)
                    THEN SliceRet(u, Len(input), Len(input))
                    ELSE slice_next_loop(u, p + width)

slice_next(u0) ==
    LET k == slice_skip_whitespaces(u0)
    IN  IF ~k.ret THEN Ret(k.s, None)
        ELSE IF k.s.position = Len(input) THEN Ret(k.s, None)
        ELSE slice_next_loop(k.s, k.s.position)

\* e at p is '\n' (other = '\r') or '\r' (other = '\n')
slice_next_line_terminator(u, p, other) ==
    IF p + 1 < Len(input) /\ input[p + 2] = other THEN SliceRet(u, p, p + 2)
    ELSE SliceRet(u, p, p + 1)

RECURSIVE slice_next_line_loop(_, _)
slice_next_line_loop(u, p) ==
    IF p > Len(input) THEN Panic(u)
    ELSE IF p = Len(input) THEN SliceRet(u, p, p)
    ELSE LET e == input[p + 1]
             width == utf8_char_width(e)
         IN  CASE width = 0 -> slice_next_line_loop(u, p + 1)
               [] width = 1 ->
                    IF e = LF THEN slice_next_line_terminator(u, p, CR)
                    ELSE IF e = CR THEN slice_next_line_terminator(u, p, LF)
                    ELSE slice_next_line_loop(u, p + 1)
               [] OTHER ->
                    IF p + width >= Len(input) THEN SliceRet(u, Len(input), Len(input))
                    ELSE slice_next_line_loop(u, p + width)

slice_next_line(u0) ==
    IF u0.position = Len(input) THEN Ret(u0, None) ELSE slice_next_line_loop(u0, u0.position)

slice_next_until(u, bd) ==
    LET boundary_length == Len(bd)
        found == {i \in u.position..(Len(input) - boundary_length - 1) :
                     Data(i, i + boundary_length) = bd}
        first == CHOOSE i \in found : \A j \in found : i <= j
    IN  IF u.position = Len(input) THEN Ret(u, None)
        ELSE IF boundary_length = 0 \/ boundary_length >= Len(input) - u.position
             THEN SliceRet(u, Len(input), Len(input))
        ELSE IF found = {} THEN SliceRet(u, Len(input), Len(input))
        ELSE [SliceRet(u, first, first + boundary_length) EXCEPT !.matched = TRUE]

(***************************************************************************)
(* ScannerStr (scanner_str.rs): the text is the input, which is a str and  *)
(* therefore well-formed UTF-8, and the scanner is its position in it.  A  *)
(* returned &str is the sequence of its characters.                        *)
(***************************************************************************)
NewScannerStr == [position |-> 0]

\* return &self.text[position..p] and stand at q
StrRet(u, p, q) ==
    Ret([u EXCEPT !.position = q], Some(from_utf8_lossy(Data(u.position, p))))

RECURSIVE str_skip_whitespaces_loop(_)
str_skip_whitespaces_loop(u) ==
    LET e == input[u.position + 1]
        width == utf8_char_width(e)
        u1 == CASE width = 1 /\ is_whitespace_1(e) -> [u EXCEPT !.position = @ + 1]
                [] width = 3 /\ u.position + 2 < Len(input)
                       /\ is_whitespace_3(input[u.position + 1], input[u.position + 2],
                                          input[u.position + 3]) ->
                       [u EXCEPT !.position = @ + 3]
                [] OTHER -> u
    IN  IF width = 3 /\ u.position + 2 >= Len(input) THEN Panic(u)
        ELSE IF u1 = u \/ u1.position = Len(input) THEN Ret(u1, TRUE)
        ELSE str_skip_whitespaces_loop(u1)

str_skip_whitespaces(u0) ==
    IF u0.position = Len(input) THEN Ret(u0, FALSE) ELSE str_skip_whitespaces_loop(u0)

\* the loop of next; indexing past the text, or a byte that starts no
\* character, cannot happen in a str
RECURSIVE str_next_loop(_, _)
str_next_loop(u, p) ==
    IF p > Len(input) THEN Panic(u)
    ELSE IF p = Len(input) THEN StrRet(u, p, p)
    ELSE LET e == input[p + 1]
             width == utf8_char_width(e)
         IN  CASE width = 0 -> Panic(u)
               [] width = 1 ->
                    IF is_whitespace_1(e) THEN StrRet(u, p, p + 1)
                    ELSE str_next_loop(u, p + 1)
               [] width = 3 ->
                    IF u.position + 2 >= Len(input) THEN Panic(u)
                    ELSE IF is_whitespace_3(input[u.position + 1], input[u.position + 2],
                                            input[u.position + 3])
                         THEN StrRet(u, p, p + 3)
                         ELSE str_next_loop(u, p + 3)
               [] OTHER -> str_next_loop(u, p + width)

str_next(u0) ==
    LET k == str_skip_whitespaces(u0)
    IN  IF k.fault THEN k
        ELSE IF ~k.ret THEN Ret(k.s, None)
        ELSE IF k.s.position = Len(input) THEN Ret(k.s, None)
        ELSE str_next_loop(k.s, k.s.position)

\* the byte at p is '\n' (other = '\r') or '\r' (other = '\n')
str_next_line_terminator(u, p, other) ==
    IF p + 1 < Len(input) /\ input[p + 2] = other THEN StrRet(u, p, p + 2)
    ELSE StrRet(u, p, p + 1)

RECURSIVE str_next_line_loop(_, _)
str_next_line_loop(u, p) ==
    IF p > Len(input) THEN Panic(u)
    ELSE IF p = Len(input) THEN StrRet(u, p, p)
    ELSE LET e == input[p + 1]
             width == utf8_char_width(e)
         IN  CASE width = 0 -> Panic(u)
               [] width = 1 ->
                    IF e = LF THEN str_next_line_terminator(u, p, CR)
                    ELSE IF e = CR THEN str_next_line_terminator(u, p, LF)
                    ELSE str_next_line_loop(u, p + 1)
               [] OTHER -> str_next_line_loop(u, p + width)

str_next_line(u0) ==
    IF u0.position = Len(input) THEN Ret(u0, None) ELSE str_next_line_loop(u0, u0.position)

(***************************************************************************)
(* The inputs and the callers.  A caller either repeats one operation      *)
(* until it returns None (mode names the operation; out collects the       *)
(* values returned, done records the None) or calls the operations in any  *)
(* order (mode "any"; mode "buffer" on inputs longer than the buffer, with  *)
(* turn counting the calls).                                               *)
(***************************************************************************)
RECURSIVE UnitSeqs(_, _)
UnitSeqs(units, n) ==
    IF n = 0 THEN {<<>>}
    ELSE LET shorter == UnitSeqs(units, n - 1)
         IN  shorter \cup {u \o w : u \in units, w \in shorter}

\* a run of one-byte characters two bytes short of the buffer, so that what
\* follows it straddles the end of the buffer
Pad == [i \in 1..(BUFFER_SIZE - 2) |-> 97]

Long(units) == {Pad \o t : t \in UnitSeqs(units, MaxLongUnits)}

\* the places where the reader may end a read short; for the long inputs
\* only the last SplitWindow places are tried
SplitSets(n) ==
    {S \in SUBSET (Max(1, IF n < Len(Pad) THEN 1 ELSE n - SplitWindow)..(n - 1)) :
        Cardinality(S) <= MaxSplits}

LineUnits == {<<97>>, <<LF>>, <<CR>>, <<195>>, <<169>>}
CharUnits == {<<97>>, <<169>>, <<195>>, <<226, 169>>, <<240, 169, 169>>}
TokenUnits == {<<97>>, <<32>>, <<226, 128, 128>>, <<226, 128, 169>>}
UntilUnits == {<<97>>, <<98>>, <<195, 169>>}
AnyUnits == {<<97>>, <<LF>>, <<195, 169>>}
DropUnits == {<<97>>, <<32>>, <<195, 169>>, <<228, 184, 173>>, <<240, 159, 152, 128>>, <<226>>}
\* lead bytes of 2-, 3- and 4-byte characters cut short by a line terminator
\* or by the end of the input
CutUnits == {<<97>>, <<LF>>, <<CR>>, <<195>>, <<226>>, <<240, 159>>}

LineInputs == UnitSeqs(LineUnits, MaxLineUnits)
CharInputs == UnitSeqs(CharUnits, MaxCharUnits)
TokenInputs == UnitSeqs(TokenUnits, MaxTokenUnits)
UntilInputs == UnitSeqs(UntilUnits, MaxUntilUnits)
AnyInputs == UnitSeqs(AnyUnits, MaxAnyUnits)

Boundaries == {<<97, 98>>, <<195, 169>>}

Modes ==
    {"next_char", "next_line", "next_line_raw", "next", "next_raw", "next_until_raw", "any"}

\* the modes in which the caller mixes operations and collects nothing
Mixed == {"any", "buffer", "drop"}

InputsOf(m) ==
    CASE m = "next_char" -> CharInputs \cup Long(CharUnits)
      [] m \in {"next_line", "next_line_raw"} -> LineInputs \cup Long(LineUnits)
      [] m \in {"next", "next_raw"} -> TokenInputs \cup Long(TokenUnits)
      [] m = "next_until_raw" -> UntilInputs \cup Long(UntilUnits)
      [] m = "buffer" -> Long(AnyUnits)
      [] m = "drop" -> UnitSeqs(DropUnits, MaxDropUnits)
      [] m = "cut_line" -> UnitSeqs(CutUnits, MaxCutUnits)
      [] OTHER -> AnyInputs

BoundariesOf(m) ==
    CASE m = "next_until_raw" -> Boundaries
      [] m \in Mixed -> {<<97>>}
      [] OTHER -> {<<>>}

NoCall == [op |-> "new", pre |-> <<>>, ret |-> None, fault |-> FALSE, matched |-> FALSE]

InitModes(modes) ==
    /\ mode \in modes
    /\ input \in InputsOf(mode)
    /\ boundary \in BoundariesOf(mode)
    /\ sc \in {NewScanner(S) : S \in SplitSets(Len(input))}
    /\ asc = <<>>
    /\ lsc = <<>>
    /\ usc = <<>>
    /\ ssc = <<>>
    /\ last = NoCall
    /\ out = <<>>
    /\ done = FALSE
    /\ turn = 0

Init == InitModes(Modes)

\* a call of operation op on Scanner that ended as r
Call(op, r) ==
    /\ Len(out) <= Len(input)
    /\ sc' = r.s
    /\ last' = [op |-> op, pre |-> Unread(sc), ret |-> r.ret, fault |-> r.fault,
                 matched |-> r.matched]
    /\ out' = IF mode \notin Mixed /\ r.ret.some THEN Append(out, r.ret.val) ELSE out
    /\ done' = (done \/ (mode \notin Mixed /\ ~r.ret.some))
    /\ mode = "buffer" => turn < MaxCalls
    /\ turn' = IF mode = "buffer" THEN turn + 1 ELSE turn
    /\ UNCHANGED <<input, mode, boundary, asc, lsc, usc, ssc>>

NextChar == mode \in Mixed \cup {"next_char", "no_boundary"} /\ Call("next_char", next_char(sc))

NextLine == mode \in Mixed \cup {"next_line", "cut_line"} /\ Call("next_line", next_line(sc))

NextLineRaw == mode \in Mixed \cup {"next_line_raw"} /\ Call("next_line_raw", next_line_raw(sc))

SkipWhitespaces ==
    /\ mode \in Mixed
    /\ LET k == skip_whitespaces(sc)
       IN  Call("skip_whitespaces", [k EXCEPT !.ret = Some(<<k.ret>>)])

NextToken == mode \in Mixed \cup {"next"} /\ Call("next", next(sc))

NextRaw == mode \in Mixed \cup {"next_raw"} /\ Call("next_raw", next_raw(sc))

NextUntilRaw ==
    mode \in Mixed \cup {"next_until_raw", "no_boundary"} /\ Call("next_until_raw", next_until_raw(sc, boundary))

NextBytes ==
    /\ mode \in {"buffer", "drop"}
    /\ \E max_number_of_bytes \in (IF mode = "drop" THEN {0, MaxBytes} ELSE 0..MaxBytes) :
           Call("next_bytes", next_bytes(sc, max_number_of_bytes))

Peek == mode = "buffer" /\ \E shift \in BOOLEAN : Call("peek", peek(sc, shift))

\* the caller removes at most the bytes that are buffered
RemoveHeadingBytes ==
    /\ mode = "buffer"
    /\ \E number_of_bytes \in (0..MaxBytes) \cup {sc.len} :
           /\ number_of_bytes <= sc.len
           /\ Call("remove_heading_bytes_from_buffer",
                   remove_heading_bytes_from_buffer(sc, number_of_bytes))

Next ==
    \/ NextChar
    \/ NextLine
    \/ NextLineRaw
    \/ SkipWhitespaces
    \/ NextToken
    \/ NextRaw
    \/ NextUntilRaw

Spec == Init /\ [][Next]_vars

\* the caller that mixes peek and remove_heading_bytes_from_buffer with the
\* extraction operations, on inputs longer than the buffer
InitBuffer == InitModes({"buffer"})

NextBuffer ==
    \/ Next
    \/ NextBytes
    \/ Peek
    \/ RemoveHeadingBytes

SpecBuffer == InitBuffer /\ [][NextBuffer]_vars

\* the caller that passes an empty boundary to next_until_raw and to
\* drop_next_until, between calls of next_char
InitNoBoundary == InitModes({"no_boundary"})

DropNextUntil ==
    /\ mode = "no_boundary"
    /\ Call("drop_next_until", drop_next_until(sc, boundary))

NextNoBoundary ==
    \/ NextChar
    \/ NextUntilRaw
    \/ DropNextUntil

SpecNoBoundary == InitNoBoundary /\ [][NextNoBoundary]_vars

\* the caller that repeats next_line on inputs with cut multi-byte characters
InitCut == InitModes({"cut_line"})

SpecCut == InitCut /\ [][NextLine]_vars

\* the caller that mixes next_raw and next_bytes with drop_next and
\* drop_next_bytes
InitDrop ==
    /\ InitModes({"drop"})
    /\ Cardinality(sc.sp) <= 1

DropNext == mode = "drop" /\ Call("drop_next", drop_next(sc))

DropNextBytes ==
    /\ mode = "drop"
    /\ \E max_number_of_bytes \in {0, MaxBytes} :
           Call("drop_next_bytes", drop_next_bytes(sc, max_number_of_bytes))

NextDrop ==
    \/ NextRaw
    \/ DropNext
    \/ NextBytes
    \/ DropNextBytes

SpecDrop == InitDrop /\ [][NextDrop]_vars

(***************************************************************************)
(* The callers of a ScannerAscii.                                          *)
(***************************************************************************)
AsciiLineUnits == {<<97>>, <<LF>>, <<CR>>}
AsciiUntilUnits == {<<97>>, <<98>>, <<99>>}
AsciiAnyUnits == {<<97>>, <<LF>>, <<CR>>, <<200>>}

AsciiBoundaries == {<<97, 98>>, <<97, 97, 98>>}

AsciiModes == {"ascii_next_line", "ascii_next_until_raw", "ascii_any"}

\* the modes in which the caller mixes operations and collects nothing
AsciiMixed == {"ascii_any", "ascii_token", "ascii_peek"}

AsciiInputsOf(m) ==
    CASE m \in {"ascii_next_line", "ascii_peek"} -> UnitSeqs(AsciiLineUnits, MaxAsciiUnits)
      [] m = "ascii_next_until_raw" -> UnitSeqs(AsciiUntilUnits, MaxAsciiUnits)
      [] OTHER -> UnitSeqs(AsciiAnyUnits, MaxAsciiAnyUnits)

AsciiBoundariesOf(m) ==
    CASE m \in {"ascii_next_line", "ascii_token", "ascii_peek"} -> {<<>>}
      [] m = "ascii_next_until_raw" -> AsciiBoundaries
      [] OTHER -> {<<97>>, <<LF, 97>>}

InitAsciiModes(modes) ==
    /\ mode \in modes
    /\ input \in AsciiInputsOf(mode)
    /\ boundary \in AsciiBoundariesOf(mode)
    /\ asc \in {NewScannerAscii(n, S) : n \in 4..AsciiN, S \in SplitSets(Len(input))}
    /\ sc = NewScanner({})
    /\ lsc = <<>>
    /\ usc = <<>>
    /\ ssc = <<>>
    /\ last = NoCall
    /\ out = <<>>
    /\ done = FALSE
    /\ turn = 0

InitAscii == InitAsciiModes(AsciiModes)

\* a call of operation op on ScannerAscii that ended as r
AsciiCall(op, r) ==
    /\ Len(out) <= Len(input)
    /\ asc' = r.s
    /\ last' = [op |-> op, pre |-> AsciiUnread(asc), ret |-> r.ret, fault |-> r.fault,
                 matched |-> r.matched]
    /\ out' = IF mode \notin AsciiMixed /\ r.ret.some THEN Append(out, r.ret.val) ELSE out
    /\ done' = (done \/ (mode \notin AsciiMixed /\ ~r.ret.some))
    /\ UNCHANGED <<input, mode, boundary, sc, lsc, usc, turn, ssc>>

AsciiNextChar == mode \in {"ascii_any", "ascii_peek"} /\ AsciiCall("next_char", ascii_next_char(asc))

AsciiNextLine ==
    mode \in AsciiMixed \cup {"ascii_next_line"} /\ AsciiCall("next_line", ascii_next_line(asc))

AsciiNextLineRaw == mode = "ascii_any" /\ AsciiCall("next_line_raw", ascii_next_line_raw(asc))

AsciiNextUntilRaw ==
    /\ mode \in {"ascii_any", "ascii_next_until_raw"}
    /\ AsciiCall("next_until_raw", ascii_next_until_raw(asc, boundary))

NextAscii ==
    \/ AsciiNextChar
    \/ AsciiNextLine
    \/ AsciiNextLineRaw
    \/ AsciiNextUntilRaw

SpecAscii == InitAscii /\ [][NextAscii]_vars

\* the caller that mixes peek with next_char and next_line on a ScannerAscii
InitAsciiPeek == InitAsciiModes({"ascii_peek"})

AsciiPeek ==
    mode = "ascii_peek" /\ \E shift \in BOOLEAN : AsciiCall("peek", ascii_peek(asc, shift))

NextAsciiPeek ==
    \/ AsciiNextChar
    \/ AsciiNextLine
    \/ AsciiPeek

SpecAsciiPeek == InitAsciiPeek /\ [][NextAsciiPeek]_vars

(***************************************************************************)
(* The caller that mixes skip_whitespaces, next, next_raw and next_line on *)
(* each of the three scanners, and next_until on a ScannerU8Slice.         *)
(***************************************************************************)
SliceUnits == {<<97>>, <<32>>, <<LF>>, <<CR>>, <<226, 128, 168>>, <<195, 169>>}

SliceBoundaries == {<<97>>, <<LF, 97>>}

InitSlice ==
    /\ mode = "slice"
    /\ input \in UnitSeqs(SliceUnits, MaxSliceUnits)
    /\ boundary \in SliceBoundaries
    /\ usc = NewScannerU8Slice
    /\ ssc = <<>>
    /\ sc = NewScanner({})
    /\ asc = <<>>
    /\ lsc = <<>>
    /\ last = NoCall
    /\ out = <<>>
    /\ done = FALSE
    /\ turn = 0

\* a call of operation op on ScannerU8Slice that ended as r
SliceCall(op, r) ==
    /\ mode = "slice"
    /\ usc' = r.s
    /\ last' = [op |-> op, pre |-> SliceUnread(usc), ret |-> r.ret, fault |-> r.fault,
                 matched |-> r.matched]
    /\ UNCHANGED <<input, mode, boundary, sc, asc, lsc, out, done, turn, ssc>>

SliceSkipWhitespaces ==
    LET k == slice_skip_whitespaces(usc)
    IN  SliceCall("skip_whitespaces", [k EXCEPT !.ret = Some(<<k.ret>>)])

SliceNext == SliceCall("next", slice_next(usc))

SliceNextLine == SliceCall("next_line", slice_next_line(usc))

SliceNextUntil == SliceCall("next_until", slice_next_until(usc, boundary))

AsciiSkipWhitespaces ==
    /\ mode = "ascii_token"
    /\ LET k == ascii_skip_whitespaces(asc)
       IN  AsciiCall("skip_whitespaces", [k EXCEPT !.ret = Some(<<k.ret>>)])

AsciiNextToken == mode = "ascii_token" /\ AsciiCall("next", ascii_next(asc))

AsciiNextRaw == mode = "ascii_token" /\ AsciiCall("next_raw", ascii_next_raw(asc))

\* the caller that makes the same calls on a ScannerStr and on a
\* ScannerU8Slice over the bytes of the same text; last is the call on the
\* ScannerU8Slice and out holds what the ScannerStr returned
InitStr ==
    /\ mode = "str"
    /\ input \in UnitSeqs(SliceUnits, MaxSliceUnits)
    /\ boundary = <<>>
    /\ usc = NewScannerU8Slice
    /\ ssc = NewScannerStr
    /\ sc = NewScanner({})
    /\ asc = <<>>
    /\ lsc = <<>>
    /\ last = NoCall
    /\ out = <<>>
    /\ done = FALSE
    /\ turn = 0

StrCall(op, r, t) ==
    /\ mode = "str"
    /\ usc' = r.s
    /\ ssc' = t.s
    /\ last' = [op |-> op, pre |-> SliceUnread(usc), ret |-> r.ret, fault |-> r.fault,
                 matched |-> r.matched]
    /\ out' = <<[ret |-> t.ret, fault |-> t.fault]>>
    /\ UNCHANGED <<input, mode, boundary, sc, asc, lsc, done, turn>>

StrNext == StrCall("next", slice_next(usc), str_next(ssc))

StrNextLine == StrCall("next_line", slice_next_line(usc), str_next_line(ssc))

NextStr ==
    \/ StrNext
    \/ StrNextLine

SpecStr == InitStr /\ [][NextStr]_vars

InitTokens ==
    \/ InitModes({"any", "next", "next_raw"})
    \/ InitAsciiModes({"ascii_token"})
    \/ InitSlice

NextTokens ==
    \/ NextChar
    \/ NextLine
    \/ NextLineRaw
    \/ SkipWhitespaces
    \/ NextToken
    \/ NextRaw
    \/ NextUntilRaw
    \/ AsciiSkipWhitespaces
    \/ AsciiNextToken
    \/ AsciiNextRaw
    \/ AsciiNextLine
    \/ SliceSkipWhitespaces
    \/ SliceNext
    \/ SliceNextLine
    \/ SliceNextUntil

SpecTokens == InitTokens /\ [][NextTokens]_vars

(***************************************************************************)
(* The caller of is_whitespace_3 (skip_whitespaces, next, next_raw): the   *)
(* three bytes of a character whose lead byte announces three bytes.       *)
(***************************************************************************)
LeadBytes == 224..228
SecondBytes == {128, 129, 130, 154, 155, 160}
ThirdBytes == 120..200

InitWhitespace ==
    /\ mode = "is_whitespace_3"
    /\ input \in {<<b1, b2, b3>> : b1 \in LeadBytes, b2 \in SecondBytes, b3 \in ThirdBytes}
    /\ boundary = <<>>
    /\ sc = NewScanner({})
    /\ asc = <<>>
    /\ lsc = <<>>
    /\ usc = <<>>
    /\ ssc = <<>>
    /\ last = NoCall
    /\ out = <<>>
    /\ done = FALSE
    /\ turn = 0

IsWhitespace3 ==
    /\ mode = "is_whitespace_3"
    /\ last.op = "new"
    /\ last' = [op |-> "is_whitespace_3", pre |-> input,
                 ret |-> Some(<<is_whitespace_3(input[1], input[2], input[3])>>),
                 fault |-> FALSE, matched |-> FALSE]
    /\ UNCHANGED <<input, mode, boundary, sc, asc, lsc, usc, out, done, turn, ssc>>

NextWhitespace == IsWhitespace3

SpecWhitespace == InitWhitespace /\ [][NextWhitespace]_vars

(***************************************************************************)
(* The caller of a capacity-configurable Scanner: repeated next_line on    *)
(* buffers of 4 .. MaxCapacity bytes.                                      *)
(***************************************************************************)
CapUnits == {<<97>>, <<LF>>, <<CR>>, <<228, 184, 173>>}

\* the reader ends at most one read short
CapSplitSets(n) == {{}} \cup {{k} : k \in 1..(n - 1)}

InitCap ==
    /\ mode = "lib_next_line"
    /\ input \in UnitSeqs(CapUnits, MaxCapUnits)
    /\ boundary = <<>>
    /\ lsc \in {with_capacity(c, S) : c \in 4..MaxCapacity, S \in CapSplitSets(Len(input))}
    /\ usc = <<>>
    /\ ssc = <<>>
    /\ sc = NewScanner({})
    /\ asc = <<>>
    /\ last = NoCall
    /\ out = <<>>
    /\ done = FALSE
    /\ turn = 0

LibNextLine ==
    /\ Len(out) <= Len(input)
    /\ LET r == lib_next_line(lsc)
       IN  /\ lsc' = r.s
           /\ last' = [op |-> "next_line", pre |-> Buffered(lsc, lsc.position) \o Drop(input, lsc.pos),
                        ret |-> r.ret, fault |-> r.fault, matched |-> r.matched]
           /\ out' = IF r.ret.some THEN Append(out, r.ret.val) ELSE out
           /\ done' = (done \/ ~r.ret.some)
    /\ UNCHANGED <<input, mode, boundary, sc, asc, usc, turn, ssc>>

NextCap == LibNextLine

SpecCap == InitCap /\ [][NextCap]_vars

\* the caller of the capacity-configurable Scanner that repeats next_char
\* until it is called with nothing left to read
LibCharUnits == {<<97>>, <<169>>, <<195, 169>>, <<226, 169>>, <<226>>}

LibUnread(s) == Buffered(s, s.position) \o Drop(input, s.pos)

InitCapChar ==
    /\ mode = "lib_next_char"
    /\ input \in UnitSeqs(LibCharUnits, MaxCharUnits)
    /\ boundary = <<>>
    /\ lsc \in {with_capacity(c, S) : c \in 4..MaxCapacity, S \in CapSplitSets(Len(input))}
    /\ usc = <<>>
    /\ ssc = <<>>
    /\ sc = NewScanner({})
    /\ asc = <<>>
    /\ last = NoCall
    /\ out = <<>>
    /\ done = FALSE
    /\ turn = 0

LibNextChar ==
    /\ mode = "lib_next_char"
    /\ ~done
    /\ LET r == lib_next_char(lsc)
       IN  /\ lsc' = r.s
           /\ last' = [op |-> "next_char", pre |-> LibUnread(lsc), ret |-> r.ret,
                        fault |-> r.fault, matched |-> r.matched]
           /\ out' = IF r.ret.some THEN Append(out, r.ret.val) ELSE out
           /\ done' = (LibUnread(lsc) = <<>>)
    /\ UNCHANGED <<input, mode, boundary, sc, asc, usc, turn, ssc>>

NextCapChar == LibNextChar

SpecCapChar == InitCapChar /\ [][NextCapChar]_vars

\* the caller of the capacity-configurable Scanner that repeats next on
\* well-formed UTF-8 with characters of 1, 2, 3 and 4 bytes
LibTokenUnits == {<<97>>, <<32>>, <<195, 169>>, <<228, 184, 173>>, <<240, 159, 152, 128>>}

InitCapNext ==
    /\ mode = "lib_next"
    /\ input \in UnitSeqs(LibTokenUnits, MaxCapUnits)
    /\ boundary = <<>>
    /\ lsc \in {with_capacity(c, S) : c \in 4..MaxCapacity, S \in CapSplitSets(Len(input))}
    /\ usc = <<>>
    /\ ssc = <<>>
    /\ sc = NewScanner({})
    /\ asc = <<>>
    /\ last = NoCall
    /\ out = <<>>
    /\ done = FALSE
    /\ turn = 0

LibNext ==
    /\ mode = "lib_next"
    /\ ~done
    /\ LET r == lib_next(lsc)
       IN  /\ lsc' = r.s
           /\ last' = [op |-> "next", pre |-> LibUnread(lsc), ret |-> r.ret,
                        fault |-> r.fault, matched |-> r.matched]
           /\ out' = IF r.ret.some THEN Append(out, r.ret.val) ELSE out
           /\ done' = ~r.ret.some
    /\ UNCHANGED <<input, mode, boundary, sc, asc, usc, turn, ssc>>

SpecCapNext == InitCapNext /\ [][LibNext]_vars

(***************************************************************************)
(* A caller that repeats one extraction operation of Scanner for ever, as  *)
(* `while let Some(x) = sc.op()?` does when the operation never returns    *)
(* None.  The values returned are not collected: last holds the latest     *)
(* call and turn the parity of the number of calls.  The loop always makes *)
(* its next call (AnotherCall), which is the fairness stated.              *)
(***************************************************************************)
MaxRepeatUnits == 3

RepeatUnits == {<<97>>, <<98>>, <<LF>>, <<195, 169>>, <<195>>}
RepeatInputs == UnitSeqs(RepeatUnits, MaxRepeatUnits)
RepeatBoundaries == {<<98>>, <<97, 98>>}

RepeatModes ==
    {"repeat_next_char", "repeat_next_line_raw", "repeat_next_raw", "repeat_next_bytes",
     "repeat_next_until_raw"}

InitRepeat ==
    /\ mode \in RepeatModes
    /\ input \in RepeatInputs
    /\ boundary \in IF mode = "repeat_next_until_raw" THEN RepeatBoundaries ELSE {<<>>}
    /\ sc \in {NewScanner(S) : S \in SplitSets(Len(input))}
    /\ asc = <<>>
    /\ lsc = <<>>
    /\ usc = <<>>
    /\ ssc = <<>>
    /\ last = NoCall
    /\ out = <<>>
    /\ done = FALSE
    /\ turn = 0

\* one more call of the repeated operation op, which ended as r
RepeatCall(op, r) ==
    /\ sc' = r.s
    /\ last' = [op |-> op, pre |-> Unread(sc), ret |-> r.ret, fault |-> r.fault,
                 matched |-> r.matched]
    /\ done' = (done \/ ~r.ret.some)
    /\ turn' = 1 - turn
    /\ UNCHANGED <<input, mode, boundary, asc, lsc, usc, out, ssc>>

RepeatNextChar == mode = "repeat_next_char" /\ RepeatCall("next_char", next_char(sc))

RepeatNextLineRaw ==
    mode = "repeat_next_line_raw" /\ RepeatCall("next_line_raw", next_line_raw(sc))

RepeatNextRaw == mode = "repeat_next_raw" /\ RepeatCall("next_raw", next_raw(sc))

RepeatNextBytes ==
    /\ mode = "repeat_next_bytes"
    /\ \E max_number_of_bytes \in 1..MaxBytes :
           RepeatCall("next_bytes", next_bytes(sc, max_number_of_bytes))

RepeatNextUntilRaw ==
    mode = "repeat_next_until_raw" /\ RepeatCall("next_until_raw", next_until_raw(sc, boundary))

NextRepeat ==
    \/ RepeatNextChar
    \/ RepeatNextLineRaw
    \/ RepeatNextRaw
    \/ RepeatNextBytes
    \/ RepeatNextUntilRaw

\* the loop goes round once more
AnotherCall == turn' = 1 - turn

SpecRepeat == InitRepeat /\ [][NextRepeat]_vars /\ WF_turn(AnotherCall)


(***************************************************************************)
(* Scanner over a reader whose reads can fail.  The reader fails one read, *)
(* the read issued when it has delivered flt.at bytes, with an I/O error   *)
(* (flt.kind = "error") or with ErrorKind::Interrupted ("interrupted"),    *)
(* and works from then on (flt.spent).  A call ends as Done (Ok) or Failed *)
(* (Err).                                                                  *)
(***************************************************************************)
MaxFaultyUnits == 3

NewFaultyScanner(splits, flt) ==
    [buf |-> [i \in 0..(BUFFER_SIZE - 1) |-> 0], off |-> 0, len |-> 0,
     pos |-> 0, sp |-> splits, eaten |-> 0, oob |-> FALSE, starved |-> FALSE, flt |-> flt]

\* self.reader.read(&mut self.buf[start..]) as a Result, with
\* self.buf_length += size when it is Ok(size)
try_read(s, start) ==
    IF ~s.flt.spent /\ s.flt.at = s.pos
    THEN [s |-> [s EXCEPT !.flt.spent = TRUE], err |-> s.flt.kind, size |-> 0]
    ELSE [s |-> read_into(s, start), err |-> "none", size |-> read_size(s, start)]

\* no read is needed
NoRead(s) == [s |-> s, err |-> "none", size |-> 1]

Done(s, v) == [s |-> s, ret |-> v, err |-> "none"]
Failed(s, kind) == [s |-> s, ret |-> None, err |-> kind]

RECURSIVE try_next_char_multi(_, _)
try_next_char_multi(s, width) ==
    IF s.len < width
    THEN LET r == try_read(s, s.off + s.len)
         IN  CASE r.err = "interrupted" -> try_next_char_multi(r.s, width)
               [] r.err = "error" -> Failed(r.s, r.err)
               [] OTHER -> IF r.size = 0
                           THEN Done(buf_left_shift(r.s, 1), Some(<<REPLACEMENT_CHARACTER>>))
                           ELSE try_next_char_multi(r.s, width)
    ELSE LET char_str_bytes == Slice(s, width)
         IN  IF from_utf8_ok(char_str_bytes)
             THEN Done(buf_left_shift(s, width), Some(<<DecodeChar(char_str_bytes)>>))
             ELSE Done(buf_left_shift(s, 1), Some(<<REPLACEMENT_CHARACTER>>))

\* next_char: the first refill is `read(..)?`
try_next_char(s0) ==
    LET r == IF s0.len = 0 THEN try_read(s0, s0.off) ELSE NoRead(s0)
        s == r.s
    IN  IF r.err # "none" THEN Failed(s, r.err)
        ELSE IF s.len = 0 THEN Done(s, None)
        ELSE LET e == s.buf[s.off]
                 width == utf8_char_width(e)
             IN  CASE width = 0 -> Done(buf_left_shift(s, 1), Some(<<REPLACEMENT_CHARACTER>>))
                   [] width = 1 -> Done(buf_left_shift(s, 1), Some(<<e>>))
                   [] OTHER -> try_next_char_multi(s, width)

RECURSIVE try_next_line_loop(_, _)
RECURSIVE try_next_line_multi(_, _, _)

\* the refill that ends an iteration of the loop: `read(..)?`
try_next_line_refill(s, temp) ==
    IF s.len = 0
    THEN LET r == try_read(s, s.off)
         IN  IF r.err # "none" THEN Failed(r.s, r.err)
             ELSE IF r.size = 0 THEN Done(r.s, Some(temp))
             ELSE try_next_line_loop(r.s, temp)
    ELSE try_next_line_loop(s, temp)

\* the look-ahead after a terminator: `read(..)?`
try_next_line_terminator(s, temp, other) ==
    LET r == IF s.len = 1 THEN try_read(s, s.off + s.len) ELSE NoRead(s)
    IN  IF r.err # "none" THEN Failed(r.s, r.err)
        ELSE IF r.size = 0 THEN Done(buf_left_shift(r.s, 1), Some(temp))
        ELSE IF r.s.buf[r.s.off + 1] = other THEN Done(buf_left_shift(r.s, 2), Some(temp))
        ELSE Done(buf_left_shift(r.s, 1), Some(temp))

try_next_line_multi(s, temp, width) ==
    IF s.len < width
    THEN LET r == try_read(s, s.off + s.len)
         IN  CASE r.err = "interrupted" -> try_next_line_multi(r.s, temp, width)
               [] r.err = "error" -> Failed(r.s, r.err)
               [] OTHER -> IF r.size = 0
                           THEN Done(buf_left_shift(r.s, r.s.len),
                                     Some(temp \o from_utf8_lossy(Live(r.s))))
                           ELSE try_next_line_multi(r.s, temp, width)
    ELSE LET char_str_bytes == Slice(s, width)
         IN  IF from_utf8_ok(char_str_bytes)
             THEN try_next_line_refill(buf_left_shift(s, width),
                                       Append(temp, DecodeChar(char_str_bytes)))
             ELSE try_next_line_refill(buf_left_shift(s, 1),
                                       Append(temp, REPLACEMENT_CHARACTER))

try_next_line_loop(s, temp) ==
    LET e == s.buf[s.off]
        width == utf8_char_width(e)
    IN  CASE width = 0 ->
               try_next_line_refill(buf_left_shift(s, 1), Append(temp, REPLACEMENT_CHARACTER))
          [] width = 1 ->
               IF e = LF THEN try_next_line_terminator(s, temp, CR)
               ELSE IF e = CR THEN try_next_line_terminator(s, temp, LF)
               ELSE try_next_line_refill(buf_left_shift(s, 1), Append(temp, e))
          [] OTHER -> try_next_line_multi(s, temp, width)

try_next_line(s0) ==
    LET r == IF s0.len = 0 THEN try_read(s0, s0.off) ELSE NoRead(s0)
    IN  IF r.err # "none" THEN Failed(r.s, r.err)
        ELSE IF r.s.len = 0 THEN Done(r.s, None)
        ELSE try_next_line_loop(r.s, <<>>)

(***************************************************************************)
(* The typed readers (next_u8 ... next_f64) are next_raw_parse::<T>; the   *)
(* model has next_u8.  A token that does not parse ends the call as        *)
(* Failed with ScannerError::ParseIntError ("parse").                      *)
(***************************************************************************)
MaxTypedUnits == 4

\* the value of the decimal digits bs added to acc, -1 when a byte is not a
\* digit or the value exceeds u8::MAX
RECURSIVE DigitsValue(_, _)
DigitsValue(bs, acc) ==
    IF bs = <<>> THEN acc
    ELSE IF bs[1] \notin 48..57 THEN -1
    ELSE LET v == acc * 10 + (bs[1] - 48)
         IN  IF v > 255 THEN -1 ELSE DigitsValue(Tail(bs), v)

\* <u8 as FromStr>::from_str: an optional '+', then one or more digits
parse_u8(bs) ==
    LET digits == IF bs # <<>> /\ bs[1] = 43 THEN Tail(bs) ELSE bs
        v == IF digits = <<>> THEN -1 ELSE DigitsValue(digits, 0)
    IN  [ok |-> v >= 0, val |-> v]

\* a next_raw_parse that reports a token that does not parse as Ok(None)
next_raw_parse_lenient(s0) ==
    LET r == next_raw(s0)
    IN  IF r.ret.some /\ parse_u8(r.ret.val).ok
        THEN Done(r.s, Some(<<parse_u8(r.ret.val).val>>))
        ELSE Done(r.s, None)

next_raw_parse(s0) ==
    LET r == next_raw(s0)
    IN  IF r.ret.some
        THEN LET parsed == parse_u8(r.ret.val)
             IN  IF parsed.ok THEN Done(r.s, Some(<<parsed.val>>)) ELSE Failed(r.s, "parse")
        ELSE Done(r.s, None)

next_u8(s0) == next_raw_parse(s0)

(***************************************************************************)
(* The caller that sees the Result of each call: it repeats one operation  *)
(* until Ok(None), calls again after an Err, and collects the values in    *)
(* out.  last.hit is the failure of the reader the call ran into.  Only    *)
(* next_char and next_line are called on a reader that fails.              *)
(***************************************************************************)
FaultyUnits == {<<97>>, <<LF>>, <<CR>>, <<195, 169>>}
FaultyInputs == UnitSeqs(FaultyUnits, MaxFaultyUnits)
TypedUnits == {<<49>>, <<57>>, <<120>>, <<32>>}
TypedInputs == UnitSeqs(TypedUnits, MaxTypedUnits)
FaultyModes == {"faulty_next_char", "faulty_next_line", "next_u8"}

Faults(n) ==
    {[at |-> 0, kind |-> "none", spent |-> TRUE]}
        \cup IF mode = "next_u8" THEN {}
             ELSE {[at |-> a, kind |-> k, spent |-> FALSE] :
                      a \in 0..n, k \in {"error", "interrupted"}}

InitFaulty ==
    /\ mode \in FaultyModes
    /\ input \in IF mode = "next_u8" THEN TypedInputs ELSE FaultyInputs
    /\ boundary = <<>>
    /\ sc \in {NewFaultyScanner(S, f) : S \in SplitSets(Len(input)), f \in Faults(Len(input))}
    /\ asc = <<>>
    /\ lsc = <<>>
    /\ usc = <<>>
    /\ ssc = <<>>
    /\ last = [op |-> "new", pre |-> <<>>, ret |-> None, err |-> "none", hit |-> "none"]
    /\ out = <<>>
    /\ done = FALSE
    /\ turn = 0

FaultyCall(op, r) ==
    /\ ~done
    /\ sc' = r.s
    /\ last' = [op |-> op, pre |-> Unread(sc), ret |-> r.ret, err |-> r.err,
                 hit |-> IF r.s.flt.spent # sc.flt.spent THEN sc.flt.kind ELSE "none"]
    /\ out' = IF r.ret.some THEN Append(out, r.ret.val) ELSE out
    /\ done' = (r.err = "none" /\ ~r.ret.some)
    /\ UNCHANGED <<input, mode, boundary, asc, lsc, usc, turn, ssc>>

FaultyNextChar == mode = "faulty_next_char" /\ FaultyCall("next_char", try_next_char(sc))

FaultyNextLine == mode = "faulty_next_line" /\ FaultyCall("next_line", try_next_line(sc))

NextU8 == mode = "next_u8" /\ FaultyCall("next_u8", next_u8(sc))

NextFaulty ==
    \/ FaultyNextChar
    \/ FaultyNextLine
    \/ NextU8

SpecFaulty == InitFaulty /\ [][NextFaulty]_vars

(***************************************************************************)
(* Reference semantics: what the documentation says an operation returns,  *)
(* as a function of the unread input alone.                                *)
(***************************************************************************)
IsPrefix(a, b) == Len(a) <= Len(b) /\ a = Take(b, Len(a))

\* the index of the first line-terminator byte of bs, 0 when there is none
RECURSIVE FirstTerminator(_, _)
FirstTerminator(bs, i) ==
    IF i > Len(bs) THEN 0
    ELSE IF bs[i] \in {LF, CR} THEN i
    ELSE FirstTerminator(bs, i + 1)

\* the lines of bs: cut at "\n", "\r", "\r\n" and "\n\r", left to right
RECURSIVE RefLines(_)
RefLines(bs) ==
    IF bs = <<>> THEN <<>>
    ELSE LET k == FirstTerminator(bs, 1)
             pair == k < Len(bs) /\ bs[k + 1] \in {LF, CR} /\ bs[k + 1] # bs[k]
         IN  IF k = 0 THEN <<bs>>
             ELSE <<Take(bs, k - 1)>> \o RefLines(Drop(bs, IF pair THEN k + 1 ELSE k))

\* the characters of bs as next_char is documented to deliver them:
\* [cp |-> code point, n |-> bytes consumed]
RECURSIVE RefChars(_)
RefChars(bs) ==
    IF bs = <<>> THEN <<>>
    ELSE LET h == LossyHead(bs)
             c == IF h.ok THEN [cp |-> DecodeChar(Take(bs, h.n)), n |-> h.n]
                  ELSE [cp |-> REPLACEMENT_CHARACTER, n |-> 1]
         IN  <<c>> \o RefChars(Drop(bs, c.n))

\* bs with every byte that is not part of a well-formed character replaced
\* by the encoding of the replacement character
RECURSIVE RefReplaced(_)
RefReplaced(bs) ==
    IF bs = <<>> THEN <<>>
    ELSE LET h == LossyHead(bs)
         IN  IF h.ok THEN Take(bs, h.n) \o RefReplaced(Drop(bs, h.n))
             ELSE <<239, 191, 189>> \o RefReplaced(Tail(bs))

RECURSIVE SumN(_)
SumN(cs) == IF cs = <<>> THEN 0 ELSE Head(cs).n + SumN(Tail(cs))

\* the number of bytes of the whitespace character at the head of bs, 0 when
\* bs does not start with whitespace
WhitespaceAt(bs) ==
    IF bs = <<>> THEN 0
    ELSE IF is_whitespace_1(bs[1]) THEN 1
    ELSE IF Len(bs) >= 3 /\ utf8_char_width(bs[1]) = 3 /\ is_whitespace_3(bs[1], bs[2], bs[3])
         THEN 3
    ELSE 0

\* the maximal runs of non-whitespace characters of well-formed bs; cur is
\* the run being collected
RECURSIVE RefTokens(_, _)
RefTokens(bs, cur) ==
    IF bs = <<>> THEN (IF cur = <<>> THEN <<>> ELSE <<cur>>)
    ELSE LET w == WhitespaceAt(bs)
             n == LossyHead(bs).n
         IN  IF w > 0
             THEN (IF cur = <<>> THEN <<>> ELSE <<cur>>) \o RefTokens(Drop(bs, w), <<>>)
             ELSE RefTokens(Drop(bs, n), cur \o Take(bs, n))

\* the index at which the first occurrence of bd in bs starts, 0 when bd
\* does not occur
RECURSIVE FirstOccurrence(_, _, _)
FirstOccurrence(bs, bd, i) ==
    IF i + Len(bd) - 1 > Len(bs) THEN 0
    ELSE IF SubSeq(bs, i, i + Len(bd) - 1) = bd THEN i
    ELSE FirstOccurrence(bs, bd, i + 1)

\* what next_until is documented to return on unread input bs, and what it
\* leaves unread
RefUntil(bs, bd) ==
    LET k == FirstOccurrence(bs, bd, 1)
    IN  IF k = 0 THEN [before |-> bs, after |-> <<>>, found |-> FALSE]
        ELSE [before |-> Take(bs, k - 1), after |-> Drop(bs, k + Len(bd) - 1), found |-> TRUE]

\* the values a caller collects by repeating an operation on scanner s
\* until it returns None
RECURSIVE RunNextLine(_)
RunNextLine(s) ==
    LET r == next_line(s)
    IN  IF ~r.ret.some THEN <<>> ELSE <<r.ret.val>> \o RunNextLine(r.s)

\* the same for next_until_raw with the boundary of the run, with the number
\* of bytes consumed after each call
RECURSIVE RunNextUntilRaw(_)
RunNextUntilRaw(s) ==
    LET r == next_until_raw(s, boundary)
    IN  IF ~r.ret.some \/ r.fault THEN <<>>
        ELSE <<[val |-> r.ret.val, eaten |-> r.s.eaten]>> \o RunNextUntilRaw(r.s)

\* the same for ScannerAscii::next_line
RECURSIVE RunAsciiNextLine(_)
RunAsciiNextLine(s) ==
    LET r == ascii_next_line(s)
    IN  IF ~r.ret.some THEN <<>> ELSE <<r.ret.val>> \o RunAsciiNextLine(r.s)

\* bytes as the characters ScannerAscii makes of them
AsciiStr(bs) == [i \in DOMAIN bs |-> IF bs[i] >= 128 THEN REPLACEMENT_CHARACTER ELSE bs[i]]

\* the same for next_line of the capacity-configurable Scanner
RECURSIVE RunLibNextLine(_)
RunLibNextLine(s) ==
    LET r == lib_next_line(s)
    IN  IF ~r.ret.some THEN <<>> ELSE <<r.ret.val>> \o RunLibNextLine(r.s)

\* out, with every String re-encoded as bytes
OutBytes == [i \in DOMAIN out |-> EncodeStr(out[i])]

(***************************************************************************)
(* Claims                                                                  *)
(***************************************************************************)

\* C1: in Scanner the bytes buf[buf_offset .. buf_offset+buf_length) are
\* exactly the input bytes read from the source (the first pos bytes) that no
\* operation has consumed yet (all but the first eaten ones), in source
\* order, after any sequence of operations: nothing is dropped, duplicated
\* or reordered by a refill, a left shift or a compaction.
C1_LiveBytesAreUnconsumedInput ==
    /\ sc.off + sc.len <= BUFFER_SIZE
    /\ sc.eaten + sc.len = sc.pos
    /\ Live(sc) = SubSeq(input, sc.eaten + 1, sc.pos)

\* C1 witness: the input came in several reads, at least two bytes have
\* been consumed, and a compaction has left at least three live bytes at
\* the front of the buffer.
C1_Witness ==
    /\ sc.off = 0
    /\ sc.eaten >= 2
    /\ sc.len >= 3
    /\ sc.sp # {}
    /\ sc.pos = Len(input)

\* C2: on well-formed UTF-8 input, repeated next_line / next_line_raw return
\* exactly the segments between line terminators ("\n", "\r", "\r\n",
\* "\n\r"), an unterminated last segment included, no empty line after a
\* final terminator, and None after them.
C2_LinesAreTheSegments ==
    (mode \in {"next_line", "next_line_raw"} /\ ValidUtf8(input)) =>
        LET got == IF mode = "next_line" THEN OutBytes ELSE out
        IN  /\ IsPrefix(got, RefLines(input))
            /\ done => got = RefLines(input)

\* C2 witness: all lines of an input with a two-byte terminator, an empty
\* line and a final terminator have been returned, then None.
C2_Witness ==
    /\ mode = "next_line_raw"
    /\ done
    /\ input = <<97, CR, LF, LF>>
    /\ out = <<(<<97>>), <<>>>>

\* C3: repeated next_line returns the same lines however the source splits
\* the input into reads as when no read is split.
C3_LinesIndependentOfChunking ==
    mode = "next_line" =>
        LET whole == RunNextLine(NewScanner({}))
        IN  /\ IsPrefix(out, whole)
            /\ done => out = whole

\* C3 witness: the two bytes of a "\r\n" were delivered by two reads and all
\* lines have been returned.
C3_Witness ==
    /\ mode = "next_line"
    /\ done
    /\ input = <<97, CR, LF, 97>>
    /\ sc.sp = {2}
    /\ out = <<(<<97>>), <<97>>>>

\* C4: when no read ends short, the lines returned by repeated next_line
\* of the capacity-configurable Scanner are, for every buffer capacity >= 4,
\* the lines returned with a capacity larger than the whole input.
C4_LinesIndependentOfCapacity ==
    (mode = "lib_next_line" /\ lsc.sp = {}) =>
        LET large == RunLibNextLine(with_capacity(Len(input) + 4, {}))
        IN  /\ IsPrefix(out, large)
            /\ done => out = large

\* C5: in ScannerAscii a pending passing_byte is the complement of the line
\* terminator consumed last, which was the last buffered byte; and for
\* every chunking and buffer size repeated next_line returns the lines
\* obtained when the input arrives in a single read into a buffer that
\* holds it all, which are the segments between terminators: a pair split
\* across two reads is one line break.
C5_PassingByteJoinsSplitPair ==
    mode = "ascii_next_line" =>
        LET whole == RunAsciiNextLine(NewScannerAscii(Max(4, Len(input)), {}))
            segments == RefLines(input)
        IN  /\ IsPrefix(out, whole)
            /\ done => /\ out = whole
                       /\ out = [i \in DOMAIN segments |-> AsciiStr(segments[i])]
            /\ asc.passing.some =>
                   /\ asc.len = 0
                   /\ asc.eaten >= 1
                   /\ input[asc.eaten] \in {LF, CR}
                   /\ asc.passing.val = (IF input[asc.eaten] = LF THEN CR ELSE LF)

\* C5 witness: "\r" was the last byte of the first read and "\n" the first
\* byte of the second, and all lines have been returned.
C5_Witness ==
    /\ mode = "ascii_next_line"
    /\ done
    /\ input = <<97, CR, LF, 97>>
    /\ asc.sp = {2}
    /\ ~asc.passing.some
    /\ out = <<(<<97>>), <<97>>>>

\* C6: repeated next_char returns, for every input and chunking, the
\* characters of the input: the decoded character and its width consumed
\* where the head is well formed, the replacement character and one byte
\* consumed otherwise; re-encoded, the results are the input with each
\* invalid byte replaced; None comes when every byte has been consumed.
C6_CharsRoundTrip ==
    mode = "next_char" =>
        LET ref == RefChars(input)
            n == Len(out)
        IN  /\ n <= Len(ref)
            /\ \A i \in 1..n : out[i] = <<ref[i].cp>>
            /\ sc.eaten = SumN(Take(ref, n))
            /\ done => /\ n = Len(ref)
                       /\ sc.eaten = Len(input)
                       /\ EncodeStr(Flatten(out)) = RefReplaced(input)

\* C6 witness: a truncated 3-byte character, a stray continuation byte and
\* a well-formed 2-byte character have been read, in three reads.
C6_Witness ==
    /\ mode = "next_char"
    /\ done
    /\ input = <<226, 169, 195, 169>>
    /\ Cardinality(sc.sp) = 2
    /\ out = <<(<<REPLACEMENT_CHARACTER>>), <<REPLACEMENT_CHARACTER>>, <<233>>>>

\* C7: on well-formed UTF-8 input, repeated next / next_raw return, for
\* every chunking, the maximal runs of non-whitespace characters in order,
\* none of them empty, and None once only whitespace or nothing remains.
C7_TokensAreMaximalRuns ==
    (mode \in {"next", "next_raw"} /\ ValidUtf8(input)) =>
        LET got == IF mode = "next" THEN OutBytes ELSE out
        IN  /\ IsPrefix(got, RefTokens(input, <<>>))
            /\ \A i \in DOMAIN out : out[i] # <<>>
            /\ done => got = RefTokens(input, <<>>)

\* C7 witness: two tokens separated by a 3-byte whitespace character that
\* was delivered in two reads.
C7_Witness ==
    /\ mode = "next_raw"
    /\ done
    /\ input = <<97, 226, 128, 128, 226, 128, 169>>
    /\ sc.sp = {3}
    /\ out = <<(<<97>>), <<226, 128, 169>>>>

\* C8: when the whole input arrives in one read, next_until_raw returns the
\* bytes before the first (leftmost) occurrence of the boundary in the
\* unread input and leaves the cursor just after that occurrence; without
\* an occurrence it returns all remaining bytes.
C8_UntilFirstOccurrence ==
    (last.op = "next_until_raw" /\ last.pre # <<>> /\ sc.sp = {}
        /\ Len(input) <= BUFFER_SIZE) =>
        LET ref == RefUntil(last.pre, boundary)
        IN  /\ ~last.fault
            /\ last.ret = Some(ref.before)
            /\ Unread(sc) = ref.after

\* C9: the values returned by repeated next_until_raw, and the number of
\* bytes consumed after each call, are the same however the source splits
\* the input into reads as when no read is split.
C9_UntilIndependentOfChunking ==
    mode = "next_until_raw" =>
        LET whole == RunNextUntilRaw(NewScanner({}))
            n == Len(out)
        IN  /\ ~last.fault
            /\ n <= Len(whole)
            /\ \A i \in 1..n : out[i] = whole[i].val
            /\ (n > 0 /\ ~done) => sc.eaten = whole[n].eaten
            /\ done => n = Len(whole)

\* C10: after ScannerAscii::next_until_raw, if a match was reported the
\* returned bytes, the boundary and the input still unread make up the
\* input unread before the call; if no match was reported the returned
\* bytes are all the input unread before the call; None is returned only
\* when nothing was unread.
C10_AsciiUntilSplitsTheUnread ==
    (mode \in AsciiModes /\ last.op = "next_until_raw") =>
        /\ ~last.fault
        /\ ~last.ret.some => (last.pre = <<>> /\ ~last.matched)
        /\ (last.ret.some /\ last.matched) =>
               last.ret.val \o boundary \o AsciiUnread(asc) = last.pre
        /\ (last.ret.some /\ ~last.matched) =>
               (last.ret.val = last.pre /\ AsciiUnread(asc) = <<>>)

\* C10 witness: the first byte of the boundary was appended to the result
\* before a refill and taken off again when the refill completed the match.
C10_Witness ==
    /\ mode = "ascii_next_until_raw"
    /\ boundary = <<97, 98>>
    /\ input = <<99, 97, 98, 99>>
    /\ asc.sp = {2}
    /\ last.op = "next_until_raw"
    /\ last.matched
    /\ last.ret = Some(<<99>>)
    /\ AsciiUnread(asc) = <<99>>

\* C11: on a finite source a caller that repeats one of next_char,
\* next_line_raw, next_raw, next_bytes(n >= 1) or next_until_raw gets None
\* after finitely many calls; when None is returned every input byte has been
\* consumed, and every later call returns None again.
ReturnedNone == last.op # "new" /\ ~last.fault /\ ~last.ret.some

C11_RepeatedCallsReachNone ==
    /\ <>ReturnedNone
    /\ [](ReturnedNone => sc.eaten = Len(input))
    /\ [][ReturnedNone => ReturnedNone']_vars


\* C12: when a read fails with an I/O error during next_line, the call
\* returns that error, the buffer invariants hold afterwards, and no input is
\* lost: once the caller has retried and reached None, the lines returned are
\* the lines of the run in which no read fails.
C12_NoInputLostByFailedRead ==
    mode = "faulty_next_line" /\ sc.flt.kind = "error" =>
        /\ last.hit = "error" => last.err = "error"
        /\ sc.off + sc.len <= BUFFER_SIZE
        /\ sc.eaten + sc.len = sc.pos
        /\ done => out = RunNextLine(NewScanner(sc.sp))


\* C14: after every public operation of Scanner (the extraction calls, peek,
\* and remove_heading_bytes_from_buffer with at most the buffered length)
\* buf_offset + buf_length <= BUFFER_SIZE, and buf_length has not underflowed.
C14_BufferBounds ==
    /\ sc.off >= 0
    /\ sc.len >= 0
    /\ sc.off + sc.len <= BUFFER_SIZE
    /\ ~last.fault \/ last.op \notin {"peek", "remove_heading_bytes_from_buffer", "next_bytes"}

\* C14 witness: a peek has filled the buffer to its last byte, two bytes
\* have been removed from the full buffer, and a second peek has filled it
\* again.
C14_Witness ==
    /\ mode = "buffer"
    /\ last.op = "peek"
    /\ sc.eaten = 2
    /\ sc.pos = BUFFER_SIZE + 2
    /\ sc.off + sc.len = BUFFER_SIZE

\* the unread input that follows the first token of bs
RECURSIVE AfterToken(_, _)
AfterToken(bs, inside) ==
    IF bs = <<>> THEN <<>>
    ELSE LET w == WhitespaceAt(bs)
         IN  IF w > 0 THEN (IF inside THEN bs ELSE AfterToken(Drop(bs, w), FALSE))
             ELSE AfterToken(Drop(bs, LossyHead(bs).n), TRUE)

\* C13: next_u8 returns Ok(None), not an error, when no token remains; when
\* the next token is not a valid u8 it returns a parse error, never an I/O
\* error, and has consumed exactly that token, so that the unread input
\* starts at the whitespace that ended the token.
C13_TypedReaderParseError ==
    last.op = "next_u8" =>
        LET tokens == RefTokens(last.pre, <<>>)
        IN  /\ last.err \in {"none", "parse"}
            /\ tokens = <<>> => (last.err = "none" /\ ~last.ret.some)
            /\ (tokens # <<>> /\ ~parse_u8(tokens[1]).ok) =>
                   (last.err = "parse" /\ Unread(sc) = AfterToken(last.pre, FALSE))

\* C13 witness: "x" is not a number; the call fails with a parse error and
\* leaves " 1" unread.
C13_Witness ==
    /\ last.op = "next_u8"
    /\ last.pre = <<120, 32, 49>>
    /\ last.err = "parse"
    /\ Unread(sc) = <<32, 49>>

\* C18: a read that fails with ErrorKind::Interrupted is retried by the
\* scanner: no call of next_char or next_line returns it to the caller as an
\* error, whichever read of the call it strikes.
C18_InterruptedIsRetried == last.err # "interrupted"


(***************************************************************************)
(* C15: skip_whitespaces of Scanner, ScannerAscii and ScannerU8Slice       *)
(* returns false exactly when there is no unread input at the time of the  *)
(* call (for a ScannerAscii, the line feed or carriage return that         *)
(* completes an already returned line's terminator is not unread input),   *)
(* and true whenever an unread byte exists, also when that byte is not     *)
(* whitespace and nothing is skipped.                                      *)
(***************************************************************************)
C15_SkipWhitespacesReturn ==
    last.op = "skip_whitespaces" =>
        /\ ~last.fault
        /\ last.ret = Some(<<last.pre # <<>>>>)

\* a call on a ScannerU8Slice that stands at a byte that is no whitespace
C15_Witness ==
    /\ mode = "slice"
    /\ last.op = "skip_whitespaces"
    /\ last.pre = <<97, 32>>
    /\ last.ret = Some(<<TRUE>>)
    /\ SliceUnread(usc) = last.pre

\* the unread input of the scanner in use
UnreadNow ==
    CASE mode = "slice" -> SliceUnread(usc)
      [] mode = "ascii_token" -> AsciiUnread(asc)
      [] OTHER -> Unread(sc)

\* another skip_whitespaces on the scanner in use: what it returns and the
\* unread input it leaves
SkipAgain ==
    CASE mode = "slice" ->
           LET r == slice_skip_whitespaces(usc)
           IN  [ret |-> r.ret, unread |-> SliceUnread(r.s), cursor |-> r.s.position]
      [] mode = "ascii_token" ->
           LET r == ascii_skip_whitespaces(asc)
           IN  [ret |-> r.ret, unread |-> AsciiUnread(r.s), cursor |-> r.s.eaten]
      [] OTHER ->
           LET r == skip_whitespaces(sc)
           IN  [ret |-> r.ret, unread |-> Unread(r.s), cursor |-> r.s.eaten]

CursorNow ==
    CASE mode = "slice" -> usc.position
      [] mode = "ascii_token" -> asc.eaten
      [] OTHER -> sc.eaten

\* skip_whitespaces was called with no whitespace at the cursor
SkippedNothing == last.op = "skip_whitespaces" /\ ~last.fault /\ WhitespaceAt(last.pre) = 0

(***************************************************************************)
(* C16 (as amended): calling skip_whitespaces twice in a row when no       *)
(* whitespace remains at the cursor returns the same value both times,     *)
(* true when unread input remains and false at the end of the input, and   *)
(* does not advance the scanner: the cursor and the unread input are       *)
(* unchanged by both calls.                                                *)
(***************************************************************************)
C16_SkipWhitespacesTwice ==
    SkippedNothing =>
        /\ last.ret = Some(<<last.pre # <<>>>>)
        /\ UnreadNow = last.pre
        /\ SkipAgain.ret = (last.pre # <<>>)
        /\ SkipAgain.unread = last.pre
        /\ SkipAgain.cursor = CursorNow

\* two calls of Scanner::skip_whitespaces in front of a token
C16_Witness ==
    /\ mode = "any"
    /\ SkippedNothing
    /\ last.pre = <<97, LF>>
    /\ sc.eaten = 0
    /\ SkipAgain = [ret |-> TRUE, unread |-> <<97, LF>>, cursor |-> 0]

(***************************************************************************)
(* C16 (as stated): calling skip_whitespaces twice in a row when no        *)
(* whitespace remains at the cursor returns false both times and does not  *)
(* advance the scanner.                                                    *)
(***************************************************************************)
C16_FalseBothTimes ==
    SkippedNothing =>
        /\ last.ret = Some(<<FALSE>>)
        /\ UnreadNow = last.pre
        /\ SkipAgain.ret = FALSE
        /\ SkipAgain.unread = last.pre
        /\ SkipAgain.cursor = CursorNow

\* what a next_line on the scanner in use returns
NextLineNow ==
    CASE mode = "slice" -> slice_next_line(usc).ret
      [] mode = "ascii_token" -> ascii_next_line(asc).ret
      [] OTHER -> next_line(sc).ret

\* next or next_raw returned a token
ReturnedToken == last.op \in {"next", "next_raw"} /\ ~last.fault /\ last.ret.some

\* the bytes the last call consumed
Consumed == Take(last.pre, Len(last.pre) - Len(UnreadNow))

(***************************************************************************)
(* C17: next / next_raw of Scanner, ScannerAscii and ScannerU8Slice does   *)
(* not consume the whitespace that ends the token: what the call consumed  *)
(* ends with the token's last byte, a token that was not ended by the end  *)
(* of the input leaves that whitespace as the first unread byte, and when  *)
(* that byte is '\n' a following next_line returns Some("").               *)
(***************************************************************************)
C17_EndingWhitespaceIsKept ==
    ReturnedToken =>
        /\ Consumed \o UnreadNow = last.pre
        /\ (last.op = "next_raw" \/ mode = "slice") =>
               Drop(Consumed, Len(Consumed) - Len(last.ret.val)) = last.ret.val
        /\ UnreadNow # <<>> => WhitespaceAt(UnreadNow) > 0
        /\ (UnreadNow # <<>> /\ Head(UnreadNow) = LF) => NextLineNow = Some(<<>>)

\* ScannerAscii::next returned "a" from "a\na" and a next_line returns ""
C17_Witness ==
    /\ mode = "ascii_token"
    /\ ReturnedToken
    /\ last.op = "next"
    /\ last.pre = <<97, LF, 97>>
    /\ last.ret = Some(<<97>>)
    /\ UnreadNow = <<LF, 97>>
    /\ NextLineNow = Some(<<>>)

(***************************************************************************)
(* C20: ScannerU8Slice::next_until on unread data and a non-empty boundary *)
(* returns the bytes before the first occurrence of the boundary and moves *)
(* the position just past that occurrence, also when the boundary is the   *)
(* last bytes of the data; it returns the whole rest only when the         *)
(* boundary does not occur.                                                *)
(***************************************************************************)
C20_SliceNextUntil ==
    (last.op = "next_until" /\ last.pre # <<>>) =>
        LET ref == RefUntil(last.pre, boundary)
        IN  /\ ~last.fault
            /\ last.ret = Some(ref.before)
            /\ SliceUnread(usc) = ref.after
            /\ last.matched = ref.found

\* U+1680, U+180E, U+2000 to U+200A, U+2028, U+2029, U+202F, U+205F, U+3000
SpaceCodePoints == {5760, 6158} \cup (8192..8202) \cup {8232, 8233, 8239, 8287, 12288}

\* the UTF-8 encoding of a code point of U+0800 to U+FFFF
Encode3(cp) == <<224 + (cp \div 4096), 128 + ((cp \div 64) % 64), 128 + (cp % 64)>>

(***************************************************************************)
(* C19: is_whitespace_3(b1, b2, b3) returns true exactly for the UTF-8     *)
(* encodings of U+1680, U+180E, U+2000 to U+200A, U+2028, U+2029, U+202F,  *)
(* U+205F and U+3000, and false for every other byte triple.               *)
(***************************************************************************)
C19_WhitespaceTable ==
    last.op = "is_whitespace_3" =>
        last.ret = Some(<<\E cp \in SpaceCodePoints : last.pre = Encode3(cp)>>)

(***************************************************************************)
(* C21: ScannerU8Slice::next ends the token at the first whitespace        *)
(* character after the token start, 1-byte whitespace and 3-byte Unicode   *)
(* whitespace (is_whitespace_3) alike: no returned token contains a        *)
(* whitespace character.                                                   *)
(***************************************************************************)
C21_SliceTokenHasNoWhitespace ==
    (mode = "slice" /\ last.op = "next" /\ last.ret.some) =>
        /\ ~last.fault
        /\ \A i \in 1..Len(last.ret.val) : WhitespaceAt(Drop(last.ret.val, i - 1)) = 0

\* the lines of bs when '\r\n' is one terminator and every other '\n' or
\* '\r' is a terminator of its own
RECURSIVE RefCrLfLines(_)
RefCrLfLines(bs) ==
    IF bs = <<>> THEN <<>>
    ELSE LET k == FirstTerminator(bs, 1)
             pair == k < Len(bs) /\ bs[k] = CR /\ bs[k + 1] = LF
         IN  IF k = 0 THEN <<bs>>
             ELSE <<Take(bs, k - 1)>> \o RefCrLfLines(Drop(bs, IF pair THEN k + 1 ELSE k))

(***************************************************************************)
(* C22: next_line of the capacity-configurable Scanner treats '\r\n' as    *)
(* one terminator, also when the '\n' is seen by the following call        *)
(* (last_cr), and '\n\r' as two terminators; an empty line that follows a  *)
(* '\r\n' is still reported.  On input of 1-byte characters the lines      *)
(* returned are the segments between such terminators, for every buffer    *)
(* capacity and every chunking of the reads.                               *)
(***************************************************************************)
C22_CrLfIsOneTerminator ==
    (mode = "lib_next_line" /\ \A i \in DOMAIN input : input[i] < 128) =>
        /\ IsPrefix(out, RefCrLfLines(input))
        /\ done => out = RefCrLfLines(input)

\* "a\r\na" with '\r' the last byte of a read: two lines
C22_Witness ==
    /\ mode = "lib_next_line"
    /\ done
    /\ input = <<97, CR, LF, 97>>
    /\ lsc.sp = {2}
    /\ out = <<(<<97>>), <<97>>>>


(***************************************************************************)
(* C23: next_char of the capacity-configurable Scanner returns             *)
(* Some(REPLACEMENT_CHARACTER) whenever the bytes at the head are not a    *)
(* correct character (invalid lead byte, failed decode, multi-byte         *)
(* sequence cut by the end of the input) and returns None only when there  *)
(* is nothing left to read.                                                *)
(***************************************************************************)
C23_LibNextCharReplaces ==
    (mode = "lib_next_char" /\ last.op = "next_char") =>
        /\ ~last.fault
        /\ last.ret.some <=> last.pre # <<>>
        /\ (last.pre # <<>> /\ ~LossyHead(last.pre).ok) =>
               last.ret = Some(<<REPLACEMENT_CHARACTER>>)


(***************************************************************************)
(* C24: from any state of Scanner, drop_next returns Some(k) where k is    *)
(* the byte length of the token that next_raw would return from the same   *)
(* state (None when next_raw would return None) and leaves the same unread *)
(* input as next_raw would, also for tokens that contain 2-, 3- and 4-byte *)
(* characters.                                                             *)
(***************************************************************************)
C24_DropNextCountsTheToken ==
    mode = "drop" =>
        LET dropped == drop_next(sc)
            token == next_raw(sc)
        IN  /\ dropped.fault = token.fault
            /\ dropped.ret.some = token.ret.some
            /\ token.ret.some => dropped.ret.val = <<Len(token.ret.val)>>
            /\ Unread(dropped.s) = Unread(token.s)

(***************************************************************************)
(* C25: Scanner::next_bytes(n) returns None exactly when no unread byte    *)
(* exists; otherwise it returns the next min(n, number of unread bytes)    *)
(* input bytes in order, collected across as many refills as needed, and   *)
(* consumes exactly those bytes; drop_next_bytes(n) consumes the same      *)
(* bytes and returns their count.  Stated of a call from the present state *)
(* for every n, and of the call made last.                                 *)
(***************************************************************************)
C25_NextBytesTakesMin ==
    mode = "drop" =>
        /\ \A n \in 0..MaxBytes :
               LET taken == next_bytes(sc, n)
                   dropped == drop_next_bytes(sc, n)
                   k == Min(n, Len(Unread(sc)))
               IN  /\ ~taken.fault /\ ~dropped.fault
                   /\ taken.ret.some <=> Unread(sc) # <<>>
                   /\ dropped.ret.some <=> Unread(sc) # <<>>
                   /\ taken.ret.some => taken.ret.val = Take(Unread(sc), k)
                   /\ dropped.ret.some => dropped.ret.val = <<k>>
                   /\ Unread(taken.s) = Drop(Unread(sc), k)
                   /\ Unread(dropped.s) = Drop(Unread(sc), k)
        /\ last.op = "next_bytes" =>
               /\ last.ret.some <=> last.pre # <<>>
               /\ last.pre = last.ret.val \o Unread(sc)
        /\ last.op = "drop_next_bytes" =>
               /\ last.ret.some <=> last.pre # <<>>
               /\ last.ret.some => Unread(sc) = Drop(last.pre, last.ret.val[1])

\* next_bytes(2) returned two bytes that two reads delivered
C25_Witness ==
    /\ mode = "drop"
    /\ last.op = "next_bytes"
    /\ input = <<97, 195, 169>>
    /\ sc.sp = {1}
    /\ last.pre = input
    /\ last.ret = Some(<<97, 195>>)
    /\ Unread(sc) = <<169>>

\* what an extraction call returns and the unread input it leaves
Outcome(r) == [ret |-> r.ret, fault |-> r.fault, unread |-> Unread(r.s)]

\* the outcomes of the extraction operations called on scanner s
Extractions(s) ==
    <<Outcome(next_char(s)), Outcome(next_line(s)), Outcome(next_line_raw(s)),
      Outcome(next(s)), Outcome(next_raw(s)), Outcome(next_until_raw(s, boundary)),
      [n \in 0..MaxBytes |-> Outcome(next_bytes(s, n))]>>

OffsetLeavesRoom(s) == s.off = 0 \/ BUFFER_SIZE - s.off > 32

\* fewer than 4 live bytes have room for their complement behind them
PartialHasRoom(s) == s.len < 4 => BUFFER_SIZE - (s.off + s.len) >= 4 - s.len

(***************************************************************************)
(* C27: after Scanner::buf_left_shift returns, either buf_offset = 0 or    *)
(* BUFFER_SIZE - buf_offset > 32; therefore whenever fewer than 4 live     *)
(* bytes remain in the buffer there are at least 4 - buf_length free bytes *)
(* after the live range.  Stated of the scanner between two calls and of   *)
(* buf_left_shift by every distance from there.                            *)
(***************************************************************************)
C27_ShiftLeavesRoom ==
    /\ OffsetLeavesRoom(sc)
    /\ PartialHasRoom(sc)
    /\ \A distance \in 0..sc.len :
           LET s == buf_left_shift(sc, distance)
           IN  /\ OffsetLeavesRoom(s)
               /\ PartialHasRoom(s)
               /\ s.len = sc.len - distance
               /\ ~s.oob => Live(s) = Drop(Live(sc), distance)

\* a compaction has left the last byte of the buffer at its front while
\* input remains to be read
C27_Witness ==
    /\ mode = "next_char"
    /\ sc.eaten > 2
    /\ sc.off = 0
    /\ sc.len \in 1..3
    /\ sc.pos < Len(input)

(***************************************************************************)
(* C28: every read that an extraction operation of Scanner issues (peek's  *)
(* own reads excepted) is given a non-empty destination slice, so no       *)
(* operation takes the 0 of a read into a full buffer for the end of the   *)
(* input: this holds in every state reached by peek, which fills the       *)
(* buffer, by remove_heading_bytes_from_buffer and by the extraction       *)
(* operations, and for every extraction operation called from such a state *)
(***************************************************************************)
Starved(s) ==
    \/ next_char(s).s.starved
    \/ next_line(s).s.starved
    \/ next_line_raw(s).s.starved
    \/ skip_whitespaces(s).s.starved
    \/ next(s).s.starved
    \/ next_raw(s).s.starved
    \/ drop_next(s).s.starved
    \/ next_until_raw(s, boundary).s.starved
    \/ \E n \in 0..MaxBytes : next_bytes(s, n).s.starved \/ drop_next_bytes(s, n).s.starved

C28_ReadsGetRoom ==
    mode = "buffer" => (~sc.starved /\ ~Starved(sc))

\* an extraction call after a peek that had filled the whole buffer has
\* read the rest of the input and has met its real end
C28_Witness ==
    /\ mode = "buffer"
    /\ last.op \notin {"peek", "remove_heading_bytes_from_buffer"}
    /\ Len(input) > BUFFER_SIZE
    /\ sc.pos = Len(input)
    /\ sc.len = 0
    /\ sc.eaten = Len(input)
    /\ ~sc.starved

(***************************************************************************)
(* C29: the compaction copy of buf_left_shift / buf_align_to_frond_end, in *)
(* Scanner and in ScannerAscii, reads only bytes inside the buffer: the    *)
(* range it copies, which starts at the advanced buf_offset and is as long *)
(* as the not yet decreased buf_length, never ends past BUFFER_SIZE (N in  *)
(* ScannerAscii)                                                           *)
(***************************************************************************)
C29_CopyStaysInside == ~sc.oob

(***************************************************************************)
(* C30: for any input bytes, invalid or cut UTF-8 included, no line that   *)
(* Scanner::next_line returns contains a '\n' or a '\r': a terminator      *)
(* byte that follows an invalid or cut multi-byte lead byte is still       *)
(* treated as a terminator and not copied into the line                    *)
(***************************************************************************)
C30_NoTerminatorInLine ==
    (mode = "cut_line" /\ last.op = "next_line" /\ last.ret.some) =>
        \A i \in 1..Len(last.ret.val) : last.ret.val[i] \notin {LF, CR}

(***************************************************************************)
(* C31: in every state of ScannerAscii that the public operations, peek    *)
(* included, can reach, passing_byte is Some only while the buffer is      *)
(* empty (buf_length = 0), so the pending complement is checked and        *)
(* cleared by the first refill after it was set                            *)
(***************************************************************************)
C31_PassingOnlyWhileEmpty ==
    mode = "ascii_peek" => (asc.passing.some => asc.len = 0)

(***************************************************************************)
(* C32: what an extraction operation of Scanner returns and the unread     *)
(* input it leaves depend only on the unread input before the call: a      *)
(* scanner in the same state whose reader will cut the rest of the source  *)
(* into reads at other places gives the same results, whatever operations  *)
(* were called before                                                      *)
(***************************************************************************)
\* the scanners that differ from s only in where the reader will end its
\* reads of the bytes not read yet
OtherReads(s) ==
    {[s EXCEPT !.sp = S] :
        S \in {S \in SplitSets(Len(input)) : S \cap (0..s.pos) = s.sp \cap (0..s.pos)}}

C32_OnlyUnreadInputMatters ==
    (mode \in {"any", "next_until_raw"}) =>
        \A v \in OtherReads(sc) : Extractions(v) = Extractions(sc)

(***************************************************************************)
(* C33: for every well-formed UTF-8 input and every capacity >= 4 of the   *)
(* capacity-configurable Scanner, each non-whitespace character of the     *)
(* input, of 1, 2, 3 or 4 bytes, appears in exactly one token returned by  *)
(* repeated next(), in input order: the tokens returned so far are a       *)
(* prefix of the non-whitespace characters of the input and, once next has *)
(* returned None, all of them                                              *)
(***************************************************************************)
RECURSIVE NonWhitespace(_)
NonWhitespace(bs) ==
    IF bs = <<>> THEN <<>>
    ELSE LET width == utf8_char_width(bs[1])
             white == \/ width = 1 /\ is_whitespace_1(bs[1])
                      \/ width = 3 /\ is_whitespace_3(bs[1], bs[2], bs[3])
         IN  (IF white THEN <<>> ELSE <<DecodeChar(Take(bs, width))>>)
                 \o NonWhitespace(Drop(bs, width))

C33_NoCharacterLost ==
    mode = "lib_next" =>
        /\ ~last.fault
        /\ IsPrefix(Flatten(out), NonWhitespace(input))
        /\ done => Flatten(out) = NonWhitespace(input)

(***************************************************************************)
(* C34: for any well-formed UTF-8 input and any sequence of next and       *)
(* next_line calls, ScannerStr and ScannerU8Slice return the same values   *)
(* (the text one returns is the text of the bytes the other returns) and   *)
(* stand at the same position after each call                              *)
(***************************************************************************)
C34_StrAndSliceAgree ==
    (mode = "str" /\ last.op # "new") =>
        /\ ssc.position = usc.position
        /\ ~last.fault /\ ~out[1].fault
        /\ out[1].ret.some = last.ret.some
        /\ out[1].ret.val = from_utf8_lossy(last.ret.val)
        /\ EncodeStr(out[1].ret.val) = last.ret.val

(***************************************************************************)
(* C35: next_until_raw and drop_next_until of Scanner called with an empty *)
(* boundary never fault: at the end of the input they return None, and     *)
(* when unread input exists they return a value                            *)
(***************************************************************************)
C35_EmptyBoundaryNeverFaults ==
    (mode = "no_boundary" /\ last.op \in {"next_until_raw", "drop_next_until"}) =>
        /\ ~last.fault
        /\ last.ret.some = (last.pre # <<>>)

====
